---------------------------- MODULE Spec2Model ----------------------------
(***************************************************************************)
(* A model of reviewboard/diffviewer/diffutils.py: the line-ending         *)
(* normalisation (convert_line_endings), the opcode post-processor         *)
(* (opcodes_with_metadata) and the chunker (get_chunks).                   *)
(*                                                                         *)
(* Text is modelled as sequences of one-character strings, so that         *)
(* stripping, whitespace removal and the newline substitution are computed *)
(* character by character as the code's regular expressions do.            *)
(***************************************************************************)
EXTENDS Integers, Sequences, FiniteSets, TLC

VARIABLES
    \* convert_line_endings
    data,               \* the string handed to convert_line_endings
    converted,          \* the results of the successive calls, oldest first
    \* the differ's output, shared by opcodes_with_metadata and get_chunks
    a,                  \* differ.a: the lines of the original file
    b,                  \* differ.b: the lines of the new file
    opcodes,            \* differ.get_opcodes(): <<tag, i1, i2, j1, j2>> tuples
    \* opcodes_with_metadata
    pc,                 \* position of the function: "annotate", "moves", "walk", "done"
    groups,             \* the list of (tag, i1, i2, j1, j2, meta) built so far
    removes,            \* stripped line -> list of (index, delete group)
    inserts,            \* the insert groups, as indexes into groups
    ins_pos,            \* the insert group the outer for loop is at
    i_move_cur,
    i_move_range,       \* the first component of the (start, cur) tuple
    r_move_ranges,      \* key -> list of (r_start, r_end, group)
    \* get_chunks
    context_num_lines,
    a_num_lines,
    b_num_lines,
    op_pos,             \* the opcode the for loop of get_chunks is at
    linenum,
    chunk_index,
    chunks,             \* the chunks yielded so far
    possible_functions, \* differ.get_interesting_lines('header', side), per side
    last_header_index,
    last_header,
    raised,             \* the exception that ended the function, or "none"
    \* get_chunks, the choice of the markup (lines 632-678)
    enable_syntax_highlighting,
    threshold,          \* diffviewer_syntax_highlighting_threshold
    old_data,           \* old: its number of lines, bytes and longest line
    new_data,           \* new, likewise
    pygments_raises,    \* the sides on which apply_pygments raises
    markup_a,
    markup_b,
    \* get_diff_files
    filediffs,          \* the source_file of each filediff, in database order
    files,              \* the list of records get_diff_files builds
    files_returned,     \* get_diff_files has returned files
    \* register_interesting_lines_for_filename
    filename,
    interesting_line_regexes,   \* what differ.add_interesting_line_regex got
    registered,         \* register_interesting_lines_for_filename has returned
    \* get_file_chunks_in_range
    range_chunks,       \* files[0]['chunks']: the lines of each chunk
    range_meta,         \* chunk['meta'] of each chunk cached in the context
    populated_meta,     \* chunk['meta'] as populate_diff_chunks stored it
    range_last_header,  \* last_header
    range_calls,        \* calls of the pager on this context so far
    first_line,
    num_lines,
    chunk_pos,          \* the chunk the for loop is at
    requested,          \* first_line and num_lines as passed by the caller
    range_yielded,      \* the chunks yielded so far
    range_pc,           \* "loop", "done" or "raised"
    \* get_line_changed_regions
    oldline,
    newline,
    char_opcodes,       \* differ.get_opcodes() of the SequenceMatcher
    region_pos,         \* the opcode the for loop is at
    oldchanges,
    newchanges,
    back,
    regions_pc          \* "start", "loop", "done", or "none" for (None, None)

nlVars == <<data, converted>>
differVars == <<a, b, opcodes>>
moveVars == <<pc, groups, removes, inserts, ins_pos, i_move_cur, i_move_range,
              r_move_ranges>>
chunkVars == <<context_num_lines, a_num_lines, b_num_lines, op_pos, linenum,
               chunk_index, chunks, possible_functions, last_header_index,
               last_header>>
hlVars == <<enable_syntax_highlighting, threshold, old_data, new_data,
            pygments_raises,
            markup_a, markup_b>>
sortVars == <<filediffs, files, files_returned>>
regVars == <<filename, interesting_line_regexes, registered>>
rangeVars == <<range_chunks, range_meta, populated_meta, range_last_header,
               range_calls, first_line, num_lines, chunk_pos, requested,
               range_yielded, range_pc>>
regionVars == <<oldline, newline, char_opcodes, region_pos, oldchanges,
                newchanges, back, regions_pc>>
extraVars == <<hlVars, sortVars, regVars, rangeVars, regionVars>>
vars == <<nlVars, differVars, moveVars, chunkVars, raised, extraVars>>

(***************************************************************************)
(* Bounds of the model.                                                    *)
(***************************************************************************)
MaxDataLen == 6         \* longest string given to convert_line_endings
MaxCalls == 2           \* convert_line_endings applied to its own result

(***************************************************************************)
(* Generic helpers.                                                        *)
(***************************************************************************)
SeqsUpTo(S, n) == UNION {[1..k -> S] : k \in 0..n}

Max(x, y) == IF x >= y THEN x ELSE y
Min(x, y) == IF x <= y THEN x ELSE y

\* Python's s[lo:hi] for 0-based 0 <= lo, hi (clamped to the length).
Slice(s, lo, hi) == SubSeq(s, lo + 1, Min(hi, Len(s)))

(***************************************************************************)
(* The parts of the model that a specification does not use stay idle.     *)
(***************************************************************************)
NewlinesIdle == data = <<>> /\ converted = <<>>
DifferIdle == a = <<>> /\ b = <<>> /\ opcodes = <<>>
MovesIdle ==
    /\ pc = "idle" /\ groups = <<>> /\ removes = <<>> /\ inserts = <<>>
    /\ ins_pos = 0 /\ i_move_cur = 0 /\ i_move_range = 0 /\ r_move_ranges = <<>>
ChunksIdle ==
    /\ context_num_lines = 0 /\ a_num_lines = 0 /\ b_num_lines = 0
    /\ op_pos = 0 /\ linenum = 0 /\ chunk_index = 0 /\ chunks = <<>>
    /\ possible_functions = <<>> /\ last_header_index = <<>>
    /\ last_header = <<>>
HighlightIdle ==
    /\ enable_syntax_highlighting = FALSE /\ threshold = 0
    /\ old_data = <<>> /\ new_data = <<>> /\ pygments_raises = {}
    /\ markup_a = "None" /\ markup_b = "None"
DiffFilesIdle == filediffs = <<>> /\ files = <<>> /\ files_returned = FALSE
RegisterIdle ==
    filename = <<>> /\ interesting_line_regexes = <<>> /\ registered = FALSE
RangeIdle ==
    /\ range_chunks = <<>> /\ first_line = 0 /\ num_lines = 0 /\ chunk_pos = 0
    /\ range_meta = <<>> /\ populated_meta = <<>>
    /\ range_last_header = <<>> /\ range_calls = 0
    /\ requested = <<>> /\ range_yielded = <<>> /\ range_pc = "idle"
RegionsIdle ==
    /\ oldline = <<>> /\ newline = <<>> /\ char_opcodes = <<>> /\ region_pos = 0
    /\ oldchanges = <<>> /\ newchanges = <<>> /\ back = <<0, 0>>
    /\ regions_pc = "idle"
ExtraIdle == HighlightIdle /\ DiffFilesIdle /\ RegisterIdle /\ RangeIdle /\ RegionsIdle

(***************************************************************************)
(* convert_line_endings (diffutils.py:183-202)                             *)
(***************************************************************************)
CR == "CR"              \* carriage return, \r
LF == "LF"              \* line feed, \n
Chars == {CR, LF, "x"}  \* "x" stands for any character other than \r and \n

\* A mutation of the pattern: \r\n? (the second \r of \r\r\n is not absorbed).
RECURSIVE SubCRLFOnly(_)
SubCRLFOnly(s) ==
    IF s = <<>> THEN <<>>
    ELSE IF Head(s) # CR THEN <<Head(s)>> \o SubCRLFOnly(Tail(s))
    ELSE IF Len(s) >= 2 /\ s[2] = LF
         THEN <<LF>> \o SubCRLFOnly(SubSeq(s, 3, Len(s)))
         ELSE <<LF>> \o SubCRLFOnly(Tail(s))

\* NEWLINE_CONVERSION_RE.sub('\n', s) with the pattern \r(\r?\n)? : re.sub
\* scans left to right; at a \r the greedy group takes \r\n if it can (the
\* match is \r\r\n), else \n alone (the match is \r\n), else nothing.
RECURSIVE NEWLINE_CONVERSION_RE_sub(_)
NEWLINE_CONVERSION_RE_sub(s) ==
    IF s = <<>> THEN <<>>
    ELSE IF Head(s) # CR THEN <<Head(s)>> \o NEWLINE_CONVERSION_RE_sub(Tail(s))
    ELSE IF Len(s) >= 3 /\ s[2] = CR /\ s[3] = LF
         THEN <<LF>> \o NEWLINE_CONVERSION_RE_sub(SubSeq(s, 4, Len(s)))
    ELSE IF Len(s) >= 2 /\ s[2] = LF
         THEN <<LF>> \o NEWLINE_CONVERSION_RE_sub(SubSeq(s, 3, Len(s)))
         ELSE <<LF>> \o NEWLINE_CONVERSION_RE_sub(Tail(s))

\* A mutation of convert_line_endings: the substitution is forgotten.
convert_line_endings_strip_only(d) ==
    IF d = <<>> THEN <<>>
    ELSE IF d[Len(d)] = CR THEN SubSeq(d, 1, Len(d) - 1) ELSE d

convert_line_endings(d) ==
    IF d = <<>> THEN <<>>
    ELSE NEWLINE_CONVERSION_RE_sub(
             IF d[Len(d)] = CR THEN SubSeq(d, 1, Len(d) - 1) ELSE d)

NewlinesInit ==
    /\ data \in SeqsUpTo(Chars, MaxDataLen)
    /\ converted = <<>>
    /\ ExtraIdle /\ DifferIdle /\ MovesIdle /\ ChunksIdle
    /\ raised = "none"

\* One call of convert_line_endings: on the input first, then on its own result.
ConvertLineEndings ==
    /\ Len(converted) < MaxCalls
    /\ converted' = Append(converted,
            convert_line_endings(IF converted = <<>> THEN data
                                 ELSE converted[Len(converted)]))
    /\ UNCHANGED <<extraVars, data, differVars, moveVars, chunkVars, raised>>

NewlinesNext == ConvertLineEndings

SpecNewlines == NewlinesInit /\ [][NewlinesNext]_vars

(***************************************************************************)
(* Claims about convert_line_endings.                                      *)
(***************************************************************************)

\* C9: convert_line_endings is idempotent: applying it to its own result
\* gives that result again, for every input, those ending in one or several
\* carriage returns included.
C9_Idempotent ==
    Len(converted) >= 2 => converted[2] = converted[1]

\* C9 witness: an input ending in two carriage returns was converted twice.
C9_Witness ==
    /\ Len(converted) >= 2
    /\ Len(data) >= 3
    /\ data[Len(data)] = CR /\ data[Len(data) - 1] = CR
    /\ converted[1] # data

\* The input of the substitution: one trailing \r removed.
StripOneCR(d) ==
    IF d # <<>> /\ d[Len(d)] = CR THEN SubSeq(d, 1, Len(d) - 1) ELSE d

RECURSIVE Concat(_)
Concat(ss) == IF ss = <<>> THEN <<>> ELSE Head(ss) \o Concat(Tail(ss))

\* What each position of s contributes when every \r\n? becomes one \n:
\* a \r gives \n, a \n right after a \r gives nothing.
OutCRLF(s, p) ==
    IF s[p] = CR THEN <<LF>>
    ELSE IF s[p] = LF /\ p > 1 /\ s[p - 1] = CR THEN <<>>
    ELSE <<s[p]>>

\* What each position of s contributes when every \r(\r?\n)? becomes one \n:
\* as above, and a \r between a \r and a \n gives nothing either.
OutCRCRLF(s, p) ==
    IF s[p] = CR
    THEN IF p > 1 /\ p < Len(s) /\ s[p - 1] = CR /\ s[p + 1] = LF
         THEN <<>> ELSE <<LF>>
    ELSE IF s[p] = LF /\ p > 1 /\ s[p - 1] = CR THEN <<>>
    ELSE <<s[p]>>

\* C10 as stated: the result is the input with one trailing \r removed and
\* then every \r\n? (a \r optionally followed by one \n) replaced by one \n.
C10_AsStated ==
    Len(converted) >= 1 =>
        LET s == StripOneCR(data)
        IN converted[1] = Concat([p \in 1..Len(s) |-> OutCRLF(s, p)])

\* C10: the result is the input with one trailing \r removed and then every
\* \r(\r?\n)? (a \r optionally followed by \n or by \r\n) replaced by one
\* \n, so \r\r\n becomes one \n as \r\n and a lone \r do.
C10_Reference ==
    Len(converted) >= 1 =>
        LET s == StripOneCR(data)
        IN converted[1] = Concat([p \in 1..Len(s) |-> OutCRCRLF(s, p)])

\* C10 witness: an input holding \r\r\n, \r\n and a trailing \r was converted.
C10_Witness ==
    /\ Len(converted) >= 1
    /\ data = <<CR, CR, LF, CR, LF, CR>>
    /\ converted[1] = <<LF, LF>>

(***************************************************************************)
(* The differ's opcodes as get_chunks receives them.                       *)
(*                                                                         *)
(* An opcode is <<tag, i1, i2, j1, j2>>; the opcodes cover both files      *)
(* without gap from (0, 0), an equal or replace opcode covers as many      *)
(* lines on both sides (opcodes_with_metadata asserts it for replace       *)
(* before get_chunks sees the opcode), and consecutive opcodes differ in   *)
(* their tag.                                                              *)
(***************************************************************************)
MaxLines == 7           \* longest file, in lines, given to get_chunks
MaxOps == 3             \* most opcodes the differ yields for get_chunks
MaxContext == 1         \* largest diffviewer_context_num_lines

Tags == {"equal", "replace", "delete", "insert"}

Tag(op) == op[1]
I1(op) == op[2]
I2(op) == op[3]
J1(op) == op[4]
J2(op) == op[5]

OpsAt(i, j, prev, maxLines) ==
    {<<t, i, i + k, j, j + k>> :
        t \in {"equal", "replace"} \ {prev},
        k \in 1..Min(maxLines - i, maxLines - j)}
    \cup (IF prev = "delete" THEN {}
          ELSE {<<"delete", i, i + k, j, j>> : k \in 1..(maxLines - i)})
    \cup (IF prev = "insert" THEN {}
          ELSE {<<"insert", i, i, j, j + k>> : k \in 1..(maxLines - j)})

RECURSIVE OpcodeSeqsFrom(_, _, _, _, _)
OpcodeSeqsFrom(i, j, prev, n, maxLines) ==
    IF n = 0 THEN {<<>>}
    ELSE {<<>>} \cup
         UNION {{<<op>> \o rest :
                    rest \in OpcodeSeqsFrom(I2(op), J2(op), Tag(op), n - 1,
                                            maxLines)} :
                op \in OpsAt(i, j, prev, maxLines)}

EndOfA(ops) == IF ops = <<>> THEN 0 ELSE I2(ops[Len(ops)])
EndOfB(ops) == IF ops = <<>> THEN 0 ELSE J2(ops[Len(ops)])

(***************************************************************************)
(* get_chunks (diffutils.py:447-752)                                       *)
(***************************************************************************)
Blank == 0              \* the '' that stands for a missing line number

\* diff_line: the rendered line; of its 8 or 9 fields the model keeps the
\* virtual line number (line[0]) and the two line numbers (line[1], line[4]).
diff_line(vlinenum, oldlinenum, newlinenum) ==
    [vlinenum |-> vlinenum, oldlinenum |-> oldlinenum, newlinenum |-> newlinenum]

\* lines = map(diff_line, xrange(linenum, linenum + numlines),
\*             xrange(i1 + 1, i2 + 1), xrange(j1 + 1, j2 + 1), ...):
\* map pads the shorter ranges with None, which diff_line turns into ''.
OpNumLines(op) == Max(I2(op) - I1(op), J2(op) - J1(op))

OpLines(op, lnum) ==
    [k \in 1..OpNumLines(op) |->
        diff_line(lnum + k - 1,
                  IF k <= I2(op) - I1(op) THEN I1(op) + k ELSE Blank,
                  IF k <= J2(op) - J1(op) THEN J1(op) + k ELSE Blank)]

NoHeader == 0           \* the None of last_header = [None, None]

\* lines[k] under Python's index rules: a negative k counts from the end.
PyIndexable(s, k) == (k >= 0 /\ k < Len(s)) \/ (k < 0 /\ -k <= Len(s))
PyItem(s, k) == IF k >= 0 THEN s[k + 1] ELSE s[Len(s) + k + 1]

\* linenum > y and linenum >= y for a number linenum and a line number y
\* that may be '': in Python 2 every number is below every string.
PyGt(x, y) == y # Blank /\ x > y
PyGe(x, y) == y # Blank /\ x >= y

\* The for loop of get_interesting_headers from index i on (lines 528-535):
\* the line numbers yielded and the last_index it ends with.  A header is
\* modelled by its line number.
RECURSIVE HeaderScan(_, _, _, _, _)
HeaderScan(pf, i, i1, i2, last_index) ==
    IF i >= Len(pf) THEN [yielded |-> <<>>, last_index |-> last_index]
    ELSE LET lnum == pf[i + 1] + 1
         IN IF PyGt(lnum, i2)
            THEN [yielded |-> <<>>, last_index |-> last_index]
            ELSE IF PyGe(lnum, i1)
            THEN LET rest == HeaderScan(pf, i + 1, i1, i2, i)
                 IN [yielded |-> <<lnum>> \o rest.yielded,
                     last_index |-> rest.last_index]
            ELSE HeaderScan(pf, i + 1, i1, i2, last_index)

\* get_interesting_headers(differ, lines, start, end, is_modified_file), with
\* pf the side's possible_functions and last_index the side's
\* last_header_index; an IndexError at lines[start] or lines[end - 1] ends
\* the generator.
get_interesting_headers(pf, lines, start, end, is_modified_file, last_index) ==
    IF pf = <<>> \/ ~PyIndexable(lines, start) \/ ~PyIndexable(lines, end - 1)
    THEN [yielded |-> <<>>, last_index |-> last_index]
    ELSE LET first == PyItem(lines, start)
             last == PyItem(lines, end - 1)
         IN HeaderScan(pf, last_index,
                       IF is_modified_file THEN first.newlinenum
                                           ELSE first.oldlinenum,
                       IF is_modified_file THEN last.newlinenum
                                           ELSE last.oldlinenum,
                       last_index)

\* compute_chunk_last_header: each side of last_header becomes the last of
\* the chunk's headers of that side, when the chunk has any.
compute_chunk_last_header(left_headers, right_headers, last) ==
    <<IF left_headers # <<>> THEN left_headers[Len(left_headers)] ELSE last[1],
      IF right_headers # <<>> THEN right_headers[Len(right_headers)] ELSE last[2]>>

\* new_chunk: the chunk over all_lines[start:end], or the IndexError that
\* compute_chunk_last_header raises at lines[0] when that slice is empty.
\* hs is last_header_index and last_header before the call, the field state
\* what they are after it; headers is <<>> when meta has no 'headers'.
new_chunk(index, all_lines, start, end, collapsable, tag, pf, hs) ==
    LET left == get_interesting_headers(pf[1], all_lines, start, end - 1,
                                        FALSE, hs.last_header_index[1])
        right == get_interesting_headers(pf[2], all_lines, start, end - 1,
                                         TRUE, hs.last_header_index[2])
        lines == Slice(all_lines, start, end)
        last == compute_chunk_last_header(left.yielded, right.yielded,
                                          hs.last_header)
        state == [last_header_index |-> <<left.last_index, right.last_index>>,
                  last_header |-> IF lines = <<>> THEN hs.last_header ELSE last]
    IN IF lines = <<>>
       THEN [error |-> "IndexError", state |-> state]
       ELSE [error |-> "none",
             state |-> state,
             index |-> index,
             lines |-> lines,
             numlines |-> Len(lines),
             change |-> tag,
             collapsable |-> collapsable,
             left_headers |-> left.yielded,
             right_headers |-> right.yielded,
             headers |-> IF /\ collapsable
                            /\ end < Len(all_lines)
                            /\ (last[1] # NoHeader \/ last[2] # NoHeader)
                         THEN last ELSE <<>>]

\* A mutation of the collapsing rule: the opcode is collapsed from
\* collapse_threshold lines on (>= for >).
ChunkRangesFromThreshold(tag, numlines, ctx, lnum, atEnd) ==
    LET collapse_threshold == 2 * ctx + 3
        last_range_start == numlines - ctx
    IN IF tag = "equal" /\ numlines >= collapse_threshold
       THEN IF lnum = 1
            THEN << <<0, last_range_start, TRUE, "equal">>,
                    <<last_range_start, numlines, FALSE, "equal">> >>
            ELSE IF atEnd
            THEN << <<0, ctx, FALSE, "equal">>,
                    <<ctx, numlines, TRUE, "equal">> >>
            ELSE << <<0, ctx, FALSE, "equal">>,
                    <<ctx, last_range_start, TRUE, "equal">>,
                    <<last_range_start, numlines, FALSE, "equal">> >>
       ELSE << <<0, numlines, FALSE, tag>> >>

\* A mutation of the collapsing rule: the branch for an opcode at the start
\* of the file is lost, so every collapsed opcode gets a head of context.
ChunkRangesNoStartCase(tag, numlines, ctx, lnum, atEnd) ==
    LET collapse_threshold == 2 * ctx + 3
        last_range_start == numlines - ctx
    IN IF tag = "equal" /\ numlines > collapse_threshold
       THEN IF atEnd
            THEN << <<0, ctx, FALSE, "equal">>,
                    <<ctx, numlines, TRUE, "equal">> >>
            ELSE << <<0, ctx, FALSE, "equal">>,
                    <<ctx, last_range_start, TRUE, "equal">>,
                    <<last_range_start, numlines, FALSE, "equal">> >>
       ELSE << <<0, numlines, FALSE, tag>> >>

\* A mutation of the collapsing rule: the collapsed middle of an interior
\* opcode stops one line short of the tail.
ChunkRangesShortMiddle(tag, numlines, ctx, lnum, atEnd) ==
    LET collapse_threshold == 2 * ctx + 3
        last_range_start == numlines - ctx
    IN IF tag = "equal" /\ numlines > collapse_threshold
       THEN IF lnum = 1
            THEN << <<0, last_range_start, TRUE, "equal">>,
                    <<last_range_start, numlines, FALSE, "equal">> >>
            ELSE IF atEnd
            THEN << <<0, ctx, FALSE, "equal">>,
                    <<ctx, numlines, TRUE, "equal">> >>
            ELSE << <<0, ctx, FALSE, "equal">>,
                    <<ctx, last_range_start - 1, TRUE, "equal">>,
                    <<last_range_start, numlines, FALSE, "equal">> >>
       ELSE << <<0, numlines, FALSE, tag>> >>

\* The new_chunk calls of one iteration of the loop over the opcodes, in
\* order, as <<start, end, collapsable, tag>>; atEnd is
\* i2 == a_num_lines and j2 == b_num_lines.
ChunkRanges(tag, numlines, ctx, lnum, atEnd) ==
    LET collapse_threshold == 2 * ctx + 3
        last_range_start == numlines - ctx
    IN IF tag = "equal" /\ numlines > collapse_threshold
       THEN IF lnum = 1
            THEN << <<0, last_range_start, TRUE, "equal">>,
                    <<last_range_start, numlines, FALSE, "equal">> >>
            ELSE IF atEnd
            THEN << <<0, ctx, FALSE, "equal">>,
                    <<ctx, numlines, TRUE, "equal">> >>
            ELSE << <<0, ctx, FALSE, "equal">>,
                    <<ctx, last_range_start, TRUE, "equal">>,
                    <<last_range_start, numlines, FALSE, "equal">> >>
       ELSE << <<0, numlines, FALSE, tag>> >>

\* The chunks of one iteration: new_chunk for each range, chunk_index
\* counting up, until a call raises.
RECURSIVE ChunksOfRanges(_, _, _, _, _)
ChunksOfRanges(lines, ranges, index, pf, hs) ==
    IF ranges = <<>> THEN <<>>
    ELSE LET r == Head(ranges)
             c == new_chunk(index, lines, r[1], r[2], r[3], r[4], pf, hs)
         IN <<c>> \o ChunksOfRanges(lines, Tail(ranges), index + 1, pf, c.state)

OpChunks(op, ctx, lnum, first_index, aN, bN, pf, hs) ==
    ChunksOfRanges(OpLines(op, lnum),
                   ChunkRanges(Tag(op), OpNumLines(op), ctx, lnum,
                               I2(op) = aN /\ J2(op) = bN),
                   first_index, pf, hs)

\* The chunks a consumer of the generator gets from a list of new_chunk
\* results: those before the first call that raised.
RECURSIVE Yielded(_)
Yielded(cs) ==
    IF cs = <<>> \/ Head(cs).error # "none" THEN <<>>
    ELSE <<[f \in DOMAIN Head(cs) \ {"error", "state"} |-> Head(cs)[f]]>>
         \o Yielded(Tail(cs))

\* possible_functions when no header pattern matches a line (or none is
\* registered).
NoHeaders == << <<>>, <<>> >>

ChunksInitWithHeaders(ops, ctx, pf) ==
    /\ opcodes = ops
    /\ possible_functions = pf
    /\ last_header_index = <<0, 0>>
    /\ last_header = <<NoHeader, NoHeader>>
    /\ context_num_lines = ctx
    /\ a_num_lines = EndOfA(ops)
    /\ b_num_lines = EndOfB(ops)
    /\ op_pos = 1
    /\ linenum = 1
    /\ chunk_index = 0
    /\ chunks = <<>>
    /\ raised = "none"
    /\ a = <<>> /\ b = <<>>     \* the text of the lines is not modelled here
    /\ ExtraIdle /\ NewlinesIdle /\ MovesIdle

ChunksInitWith(ops, ctx) == ChunksInitWithHeaders(ops, ctx, NoHeaders)

ChunksInit ==
    \E ops \in OpcodeSeqsFrom(0, 0, "none", MaxOps, MaxLines),
       ctx \in 0..MaxContext :
        ChunksInitWith(ops, ctx)

\* One iteration of "for tag, i1, i2, j1, j2, meta in opcodes_with_metadata".
GetChunksStep ==
    /\ raised = "none"
    /\ op_pos <= Len(opcodes)
    /\ LET op == opcodes[op_pos]
           made == OpChunks(op, context_num_lines, linenum, chunk_index,
                            a_num_lines, b_num_lines, possible_functions,
                            [last_header_index |-> last_header_index,
                             last_header |-> last_header])
           out == Yielded(made)
           state == made[Min(Len(out) + 1, Len(made))].state
       IN /\ chunks' = chunks \o out
          /\ last_header_index' = state.last_header_index
          /\ last_header' = state.last_header
          /\ chunk_index' = chunk_index + Len(out)
          /\ IF Len(out) = Len(made)
             THEN /\ linenum' = linenum + OpNumLines(op)
                  /\ op_pos' = op_pos + 1
                  /\ raised' = "none"
             ELSE /\ raised' = made[Len(out) + 1].error
                  /\ UNCHANGED <<linenum, op_pos>>
    /\ UNCHANGED <<extraVars, nlVars, differVars, moveVars, context_num_lines,
                   a_num_lines, b_num_lines, possible_functions>>

ChunksNext == GetChunksStep

SpecChunks == ChunksInit /\ [][ChunksNext]_vars

ChunksDone == raised = "none" /\ op_pos > Len(opcodes)

(***************************************************************************)
(* get_chunks on two identical files: the differ yields one equal opcode   *)
(* over the whole of both files (none when the files are empty).           *)
(***************************************************************************)
MaxIdenticalLines == 30     \* longest pair of identical files
MaxIdenticalContext == 3    \* largest diffviewer_context_num_lines for them

IdenticalOpcodes(n) == IF n = 0 THEN <<>> ELSE << <<"equal", 0, n, 0, n>> >>

IdenticalInit ==
    \E n \in 0..MaxIdenticalLines, ctx \in 0..MaxIdenticalContext :
        ChunksInitWith(IdenticalOpcodes(n), ctx)

SpecIdentical == IdenticalInit /\ [][ChunksNext]_vars

(***************************************************************************)
(* Claims about get_chunks.                                                *)
(***************************************************************************)

\* The rendered lines of all the chunks yielded so far, in chunk order.
AllLines == Concat([k \in 1..Len(chunks) |-> chunks[k].lines])

\* The sum of max(i2 - i1, j2 - j1) over the first n opcodes.
RECURSIVE SumOfLengths(_)
SumOfLengths(n) ==
    IF n = 0 THEN 0
    ELSE SumOfLengths(n - 1)
         + Max(I2(opcodes[n]) - I1(opcodes[n]), J2(opcodes[n]) - J1(opcodes[n]))

\* The chunks yielded for opcode p: those whose first line lies in the
\* virtual lines of that opcode.
ChunksOfOp(p) ==
    SelectSeq(chunks,
              LAMBDA c : /\ c.lines[1].vlinenum > SumOfLengths(p - 1)
                         /\ c.lines[1].vlinenum <= SumOfLengths(p))

\* C1: for context_num_lines >= 1 the lines of the chunks yielded, taken in
\* chunk order, carry the virtual line numbers 1, 2, ..., N without gap or
\* repeat, N being the sum of max(i2-i1, j2-j1) over the opcodes handled;
\* and the lines of each opcode (a collapsed equal opcode included) appear
\* once each and in their original order.
C1_ContiguousLines ==
    context_num_lines >= 1 =>
        LET all == AllLines
        IN /\ Len(all) = SumOfLengths(op_pos - 1)
           /\ \A k \in 1..Len(all) : all[k].vlinenum = k
           /\ \A p \in 1..(op_pos - 1) :
                LET op == opcodes[p]
                IN \A k \in 1..(SumOfLengths(p) - SumOfLengths(p - 1)) :
                    LET ln == all[SumOfLengths(p - 1) + k]
                    IN /\ ln.oldlinenum =
                            (IF k <= I2(op) - I1(op) THEN I1(op) + k ELSE Blank)
                       /\ ln.newlinenum =
                            (IF k <= J2(op) - J1(op) THEN J1(op) + k ELSE Blank)

\* C1 witness: with one line of context, an equal opcode of six lines in
\* the middle of the file was split into head, collapsed middle and tail.
C1_Witness ==
    /\ ChunksDone
    /\ context_num_lines = 1
    /\ Len(opcodes) = 3
    /\ Tag(opcodes[2]) = "equal" /\ I2(opcodes[2]) - I1(opcodes[2]) = 6
    /\ Len(ChunksOfOp(2)) = 3
    /\ ChunksOfOp(2)[2].collapsable /\ ChunksOfOp(2)[2].numlines = 4

\* The opcodes get_chunks has dealt with: those it has passed, and the one
\* at which it raised.
Handled(p) ==
    /\ p \in 1..Len(opcodes)
    /\ p < op_pos \/ (p = op_pos /\ raised # "none")

Collapsables(cs) == {k \in 1..Len(cs) : cs[k].collapsable}

\* C2 as stated: with collapse_threshold = 2*context_num_lines + 3, an equal
\* opcode of exactly collapse_threshold lines is emitted as one chunk that
\* is not collapsable, one of collapse_threshold + 1 lines as several chunks
\* of which exactly one is collapsable, and an opcode of another tag as one
\* chunk that is not collapsable, whatever its length.
C2_AsStated ==
    \A p \in 1..Len(opcodes) :
        Handled(p) =>
            LET op == opcodes[p]
                cs == ChunksOfOp(p)
                n == Max(I2(op) - I1(op), J2(op) - J1(op))
                collapse_threshold == 2 * context_num_lines + 3
            IN /\ (Tag(op) = "equal" /\ n = collapse_threshold) =>
                      (Len(cs) = 1 /\ ~cs[1].collapsable)
               /\ (Tag(op) = "equal" /\ n = collapse_threshold + 1) =>
                      (Len(cs) >= 2 /\ Cardinality(Collapsables(cs)) = 1)
               /\ Tag(op) # "equal" =>
                      (Len(cs) = 1 /\ ~cs[1].collapsable)

\* C2, what holds of the code: the same with the case of
\* collapse_threshold + 1 lines taken for context_num_lines >= 1 only (at
\* context_num_lines = 0 a sub-chunk of context lines is empty and new_chunk
\* raises IndexError).
C2_FromOneLineOfContext ==
    \A p \in 1..Len(opcodes) :
        Handled(p) =>
            LET op == opcodes[p]
                cs == ChunksOfOp(p)
                n == Max(I2(op) - I1(op), J2(op) - J1(op))
                collapse_threshold == 2 * context_num_lines + 3
            IN /\ (Tag(op) = "equal" /\ n = collapse_threshold) =>
                      (Len(cs) = 1 /\ ~cs[1].collapsable)
               /\ (/\ Tag(op) = "equal" /\ n = collapse_threshold + 1
                   /\ context_num_lines >= 1) =>
                      (Len(cs) >= 2 /\ Cardinality(Collapsables(cs)) = 1)
               /\ Tag(op) # "equal" =>
                      (Len(cs) = 1 /\ ~cs[1].collapsable)

\* The two files are identical and 30 lines long, context_num_lines is 3,
\* and get_chunks has returned.
ThirtyIdenticalLinesDone ==
    /\ ChunksDone
    /\ opcodes = << <<"equal", 0, 30, 0, 30>> >>
    /\ a_num_lines = 30 /\ b_num_lines = 30
    /\ context_num_lines = 3

\* chunk c carries the n virtual lines from first on.
Carries(c, first, n) ==
    /\ c.numlines = n
    /\ Len(c.lines) = n
    /\ \A k \in 1..n : c.lines[k].vlinenum = first + k - 1

\* C3 as stated: two identical files of 30 lines with context_num_lines = 3
\* give three chunks: a visible head of 3 lines, a collapsible middle of 24
\* lines and a visible tail of 3 lines.
C3_AsStated ==
    ThirtyIdenticalLinesDone =>
        /\ Len(chunks) = 3
        /\ ~chunks[1].collapsable /\ Carries(chunks[1], 1, 3)
        /\ chunks[2].collapsable /\ Carries(chunks[2], 4, 24)
        /\ ~chunks[3].collapsable /\ Carries(chunks[3], 28, 3)

\* C3: two identical files of 30 lines with context_num_lines = 3 give two
\* chunks: a collapsible head of 27 lines (the opcode starts at virtual
\* line 1, so no head of context is shown) and a visible tail of 3 lines.
C3_TwoChunks ==
    ThirtyIdenticalLinesDone =>
        /\ Len(chunks) = 2
        /\ chunks[1].collapsable /\ Carries(chunks[1], 1, 27)
        /\ ~chunks[2].collapsable /\ Carries(chunks[2], 28, 3)
        /\ chunks[1].index = 0 /\ chunks[2].index = 1
        /\ chunks[1].change = "equal" /\ chunks[2].change = "equal"

\* C3 witness: get_chunks has returned the chunks of the two 30-line files.
C3_Witness ==
    /\ ThirtyIdenticalLinesDone
    /\ Len(chunks) = 2
    /\ chunks[1].numlines = 27

(***************************************************************************)
(* Lines of text, for opcodes_with_metadata.                               *)
(***************************************************************************)
WhitespaceChars == {" "}                    \* what \s matches
AlphanumChars == {"a", "b", "x", "1", "_"}  \* what \w matches
                                            \* ("=" is neither)

\* str.strip(): leading and trailing whitespace removed.
RECURSIVE LStrip(_)
LStrip(line) ==
    IF line # <<>> /\ Head(line) \in WhitespaceChars THEN LStrip(Tail(line))
    ELSE line

RECURSIVE RStrip(_)
RStrip(line) ==
    IF line # <<>> /\ line[Len(line)] \in WhitespaceChars
    THEN RStrip(SubSeq(line, 1, Len(line) - 1))
    ELSE line

\* A mutation of strip(): the line is taken as it is.
StripNothing(line) == line

Strip(line) == RStrip(LStrip(line))

\* WHITESPACE_RE.sub("", line): every whitespace character removed.
WHITESPACE_RE_sub(line) == SelectSeq(line, LAMBDA c : c \notin WhitespaceChars)

\* ALPHANUM_RE.search(line)
ALPHANUM_RE_search(line) == \E k \in 1..Len(line) : line[k] \in AlphanumChars

\* A mutation of is_valid_move_range: the test for an alphanumeric
\* character is lost.
is_valid_move_range_by_length(lines) ==
    \E k \in 1..Len(lines) : Len(Strip(lines[k])) >= 4

is_valid_move_range(lines) ==
    \E k \in 1..Len(lines) :
        Len(Strip(lines[k])) >= 4 /\ ALPHANUM_RE_search(Strip(lines[k]))

\* The lines the files are made of: a line, the same line indented, and a
\* line too short to make a move valid.
LinePool ==
    { <<"a", "a", "a", "a">>,
      <<" ", "a", "a", "a", "a">>,
      <<"x", "=", "1">> }

(***************************************************************************)
(* The differ's output for opcodes_with_metadata: two files and opcodes    *)
(* that align them.  An equal opcode pairs identical lines; a replace      *)
(* opcode of as many lines on both sides pairs lines that differ; a        *)
(* replace opcode may also cover a different number of lines on each side. *)
(***************************************************************************)
MaxMoveLines == 5       \* most lines of the two files together
MaxMoveOps == 3         \* most opcodes the differ yields

MoveOpsAt(i, j, prev, room) ==
    (IF prev = "equal" THEN {}
     ELSE {<<"equal", i, i + k, j, j + k>> : k \in {n \in 1..room : 2 * n <= room}})
    \cup (IF prev = "replace" THEN {}
          ELSE {<<"replace", i, i + km[1], j, j + km[2]>> :
                    km \in {x \in (1..room) \X (1..room) : x[1] + x[2] <= room}})
    \cup (IF prev = "delete" THEN {}
          ELSE {<<"delete", i, i + k, j, j>> : k \in 1..room})
    \cup (IF prev = "insert" THEN {}
          ELSE {<<"insert", i, i, j, j + k>> : k \in 1..room})

RECURSIVE MoveOpcodeSeqsFrom(_, _, _, _, _)
MoveOpcodeSeqsFrom(i, j, prev, n, room) ==
    IF n = 0 THEN {<<>>}
    ELSE {<<>>} \cup
         UNION {{<<op>> \o rest :
                    rest \in MoveOpcodeSeqsFrom(
                                I2(op), J2(op), Tag(op), n - 1,
                                room - (I2(op) - i) - (J2(op) - j))} :
                op \in MoveOpsAt(i, j, prev, room)}

\* The opcodes ops are a possible output of a differ for the files fa and fb.
Aligns(ops, fa, fb) ==
    \A p \in 1..Len(ops) :
        LET op == ops[p]
        IN /\ Tag(op) = "equal" =>
                \A k \in 1..(I2(op) - I1(op)) : fa[I1(op) + k] = fb[J1(op) + k]
           /\ (Tag(op) = "replace" /\ I2(op) - I1(op) = J2(op) - J1(op)) =>
                \A k \in 1..(I2(op) - I1(op)) : fa[I1(op) + k] # fb[J1(op) + k]

(***************************************************************************)
(* opcodes_with_metadata (diffutils.py:774-986)                            *)
(***************************************************************************)
EmptyMap == [k \in {} |-> 0]

\* dict.update: the entries of m with those of upd put over them.
DictUpdate(m, upd) ==
    [k \in DOMAIN m \cup DOMAIN upd |-> IF k \in DOMAIN upd THEN upd[k] ELSE m[k]]

\* dict(zip(keys, values)) for two lists: zip stops at the shorter.
DictZip(keys, values) ==
    [k \in {keys[n] : n \in 1..Min(Len(keys), Len(values))} |->
        values[CHOOSE n \in 1..Min(Len(keys), Len(values)) :
                  /\ keys[n] = k
                  /\ \A n2 \in 1..Min(Len(keys), Len(values)) :
                        keys[n2] = k => n2 <= n]]

\* range(lo, hi)
Range(lo, hi) == [n \in 1..(hi - lo) |-> lo + n - 1]

\* The whitespace_lines of a replace opcode: zip(xrange(i1, i2),
\* xrange(j1, j2)) filtered, kept in order.
RECURSIVE WhitespaceLines(_, _, _, _, _)
WhitespaceLines(fa, fb, i, j, n) ==
    IF n = 0 THEN <<>>
    ELSE (IF WHITESPACE_RE_sub(fa[i + 1]) = WHITESPACE_RE_sub(fb[j + 1])
          THEN << <<i + 1, j + 1>> >> ELSE <<>>)
         \o WhitespaceLines(fa, fb, i + 1, j + 1, n - 1)

\* A mutation of the whitespace pass: the chunk is whitespace-only as soon
\* as one pair of lines is.
AnnotateMetaAnyPair(op, fa, fb) ==
    IF Tag(op) = "replace"
    THEN LET wl == WhitespaceLines(fa, fb, I1(op), J1(op), I2(op) - I1(op))
         IN [whitespace_chunk |-> Len(wl) > 0,
             whitespace_lines |-> wl,
             moved |-> EmptyMap]
    ELSE [whitespace_chunk |-> FALSE, whitespace_lines |-> <<>>,
          moved |-> EmptyMap]

\* The meta of an opcode after lines 789-812 (the replace opcode covers as
\* many lines on both sides).  moved is the value of meta.get('moved', {}).
AnnotateMeta(op, fa, fb) ==
    IF Tag(op) = "replace"
    THEN LET wl == WhitespaceLines(fa, fb, I1(op), J1(op), I2(op) - I1(op))
         IN [whitespace_chunk |-> (Len(wl) = I2(op) - I1(op)),
             whitespace_lines |-> wl,
             moved |-> EmptyMap]
    ELSE [whitespace_chunk |-> FALSE, whitespace_lines |-> <<>>,
          moved |-> EmptyMap]

\* removes after lines 824-829 for the delete group g: each line of the
\* group that is not blank is appended under its stripped text.
RECURSIVE AddRemoves(_, _, _, _, _)
AddRemoves(rem, fa, i, i2, g) ==
    IF i >= i2 THEN rem
    ELSE LET line == Strip(fa[i + 1])
         IN AddRemoves(
                IF line = <<>> THEN rem
                ELSE IF line \in DOMAIN rem
                     THEN [rem EXCEPT ![line] = Append(@, <<i, g>>)]
                     ELSE DictUpdate(rem, [l \in {line} |-> << <<i, g>> >>]),
                fa, i + 1, i2, g)

\* key = "%s-%s-%s-%s" % rgroup[1:5]
GroupKey(grp) == <<grp.i1, grp.i2, grp.j1, grp.j2>>

MovesInit ==
    /\ \E ops \in MoveOpcodeSeqsFrom(0, 0, "none", MaxMoveOps, MaxMoveLines) :
        /\ opcodes = ops
        /\ \E fa \in [1..EndOfA(ops) -> LinePool],
              fb \in [1..EndOfB(ops) -> LinePool] :
            /\ Aligns(ops, fa, fb)
            /\ a = fa
            /\ b = fb
    /\ pc = "annotate"
    /\ groups = <<>>
    /\ removes = EmptyMap
    /\ inserts = <<>>
    /\ ins_pos = 0
    /\ i_move_cur = 0
    /\ i_move_range = <<0, 0>>
    /\ r_move_ranges = EmptyMap
    /\ raised = "none"
    /\ ExtraIdle /\ NewlinesIdle /\ ChunksIdle

\* One iteration of the loop over differ.get_opcodes() (lines 788-831).
Annotate ==
    /\ pc = "annotate"
    /\ Len(groups) < Len(opcodes)
    /\ LET op == opcodes[Len(groups) + 1]
           g == Len(groups) + 1
       IN IF Tag(op) = "replace" /\ I2(op) - I1(op) # J2(op) - J1(op)
          THEN \* assert (i2 - i1) == (j2 - j1)
               /\ raised' = "AssertionError"
               /\ pc' = "raised"
               /\ UNCHANGED <<groups, removes, inserts>>
          ELSE /\ groups' = Append(groups,
                        [tag |-> Tag(op), i1 |-> I1(op), i2 |-> I2(op),
                         j1 |-> J1(op), j2 |-> J2(op),
                         meta |-> AnnotateMeta(op, a, b)])
               /\ removes' = IF Tag(op) = "delete"
                             THEN AddRemoves(removes, a, I1(op), I2(op), g)
                             ELSE removes
               /\ inserts' = IF Tag(op) = "insert" THEN Append(inserts, g)
                             ELSE inserts
               /\ UNCHANGED <<pc, raised>>
    /\ UNCHANGED <<extraVars, nlVars, differVars, chunkVars, ins_pos, i_move_cur,
                   i_move_range, r_move_ranges>>

\* The insert group the walk is in.
CurInsert == groups[inserts[ins_pos]]

\* The for loop over inserts moves on (lines 842-861): to the first insert
\* group once the opcodes are annotated, to the next one once the while
\* loop has run past ij2; with no insert group left, groups is returned.
NextInsert ==
    /\ \/ pc = "annotate" /\ Len(groups) = Len(opcodes)
       \/ pc = "walk" /\ i_move_cur > CurInsert.j2
    /\ ins_pos' = ins_pos + 1
    /\ IF ins_pos + 1 <= Len(inserts)
       THEN /\ pc' = "walk"
            /\ i_move_cur' = groups[inserts[ins_pos + 1]].j1
            /\ i_move_range' = <<groups[inserts[ins_pos + 1]].j1,
                                 groups[inserts[ins_pos + 1]].j1>>
            /\ r_move_ranges' = EmptyMap
       ELSE /\ pc' = "done"
            /\ UNCHANGED <<i_move_cur, i_move_range, r_move_ranges>>
    /\ UNCHANGED <<extraVars, nlVars, differVars, chunkVars, groups, removes, inserts,
                   raised>>

\* iline: differ.b[i_move_cur].strip(), or None past the end of the file.
None == <<"None">>
ILine == IF i_move_cur + 1 <= Len(b) THEN Strip(b[i_move_cur + 1]) ELSE None

\* The first range of the list that the removed line ri follows, or 0.
FollowedRange(ranges, ri) ==
    IF \E n \in 1..Len(ranges) : ri = ranges[n][2] + 1
    THEN CHOOSE n \in 1..Len(ranges) :
            /\ ri = ranges[n][2] + 1
            /\ \A n2 \in 1..(n - 1) : ri # ranges[n2][2] + 1
    ELSE 0

\* A mutation of MatchRemove: a removed line that follows no range seeds a
\* range of its own, also when there are ranges already.
MatchRemoveSeedingEach(rmr, ri, g) ==
    LET key == GroupKey(groups[g])
    IN IF key \in DOMAIN rmr /\ FollowedRange(rmr[key], ri) # 0
       THEN [rmr EXCEPT ![key][FollowedRange(rmr[key], ri)] = <<@[1], ri, g>>]
       ELSE [k \in DOMAIN rmr \cup {key} |->
                IF k = key
                THEN (IF key \in DOMAIN rmr THEN rmr[key] ELSE <<>>)
                     \o << <<ri, ri, g>> >>
                ELSE rmr[k]]

\* The body of "for ri, rgroup in removes.get(iline, [])" (lines 888-903)
\* for one removed line.
MatchRemove(rmr, ri, g) ==
    LET key == GroupKey(groups[g])
    IN IF DOMAIN rmr # {}
       THEN IF key \in DOMAIN rmr /\ FollowedRange(rmr[key], ri) # 0
            THEN [rmr EXCEPT ![key][FollowedRange(rmr[key], ri)] =
                                <<@[1], ri, g>>]
            ELSE rmr
       ELSE [k \in {key} |-> << <<ri, ri, g>> >>]

RECURSIVE MatchRemoves(_, _)
MatchRemoves(rmr, found) ==
    IF found = <<>> THEN rmr
    ELSE MatchRemoves(MatchRemove(rmr, Head(found)[1], Head(found)[2]),
                      Tail(found))

\* One iteration of the while loop, the inserted line has a removed
\* counterpart (lines 871-906).
WalkMatch ==
    /\ pc = "walk"
    /\ i_move_cur <= CurInsert.j2
    /\ ILine # None /\ ILine \in DOMAIN removes
    /\ r_move_ranges' = MatchRemoves(r_move_ranges, removes[ILine])
    /\ i_move_cur' = i_move_cur + 1
    /\ UNCHANGED <<extraVars, nlVars, differVars, chunkVars, pc, groups, removes,
                   inserts, ins_pos, i_move_range, raised>>

\* The ranges of r_move_ranges.itervalues(), one list after the other.
RECURSIVE FlattenRanges(_, _)
FlattenRanges(rmr, keys) ==
    IF keys = {} THEN <<>>
    ELSE LET k == CHOOSE k \in keys : TRUE
         IN rmr[k] \o FlattenRanges(rmr, keys \ {k})

\* The search for the longest range (lines 911-943).  The first range
\* becomes r_move_range; for any further range the code computes
\* len1 = r_move_range[2] - r_move_range[1], the group tuple minus an
\* integer, which raises TypeError whatever the order of the ranges.
NoRange == [kind |-> "none"]

RECURSIVE LongestRange(_, _)
LongestRange(cur, ranges) ==
    IF ranges = <<>> THEN cur
    ELSE IF cur.kind = "none"
         THEN LongestRange([kind |-> "range", r1 |-> Head(ranges)[1],
                            r2 |-> Head(ranges)[2], rgroup |-> Head(ranges)[3]],
                           Tail(ranges))
         ELSE [kind |-> "TypeError"]

\* A mutation of the recording of a move: the insert side is zipped with
\* the 0-based removed lines.
MovedEntriesZeroBased(i_start, i_cur, r1, r2) ==
    LET i_list == Range(i_start + 1, i_cur + 1)
        r_list == Range(r1 + 1, r2 + 2)
    IN [r |-> DictZip(r_list, i_list), i |-> DictZip(i_list, Range(r1, r2 + 1))]

\* A mutation of the recording of a move: the inserted lines are numbered
\* from the line after the one the range starts at.
MovedEntriesShifted(i_start, i_cur, r1, r2) ==
    LET i_list == Range(i_start + 2, i_cur + 2)
        r_list == Range(r1 + 1, r2 + 2)
    IN [r |-> DictZip(r_list, i_list), i |-> DictZip(i_list, r_list)]

\* The entries written for a move (lines 970-979): r for the moved meta of
\* the delete group, i for that of the insert group.
MovedEntries(i_start, i_cur, r1, r2) ==
    LET i_list == Range(i_start + 1, i_cur + 1)
        r_list == Range(r1 + 1, r2 + 2)
    IN [r |-> DictZip(r_list, i_list), i |-> DictZip(i_list, r_list)]

\* One iteration of the while loop, the inserted line has no removed
\* counterpart or the walk is past the end of the file (lines 907-984).
WalkCloseOut ==
    /\ pc = "walk"
    /\ i_move_cur <= CurInsert.j2
    /\ ~(ILine # None /\ ILine \in DOMAIN removes)
    /\ LET pick == LongestRange(NoRange,
                       FlattenRanges(r_move_ranges, DOMAIN r_move_ranges))
       IN IF pick.kind = "TypeError"
          THEN /\ raised' = "TypeError"
               /\ pc' = "raised"
               /\ UNCHANGED <<groups, i_move_cur, i_move_range, r_move_ranges>>
          ELSE /\ groups' =
                    IF /\ pick.kind = "range"
                       /\ is_valid_move_range(Slice(a, pick.r1, pick.r2))
                    THEN LET e == MovedEntries(i_move_range[1], i_move_cur,
                                               pick.r1, pick.r2)
                         IN [groups EXCEPT
                                ![pick.rgroup].meta.moved = DictUpdate(@, e.r),
                                ![inserts[ins_pos]].meta.moved =
                                    DictUpdate(@, e.i)]
                    ELSE groups
               /\ i_move_cur' = i_move_cur + 1
               /\ i_move_range' = <<i_move_cur + 1, i_move_cur + 1>>
               /\ r_move_ranges' = EmptyMap
               /\ UNCHANGED <<pc, raised>>
    /\ UNCHANGED <<extraVars, nlVars, differVars, chunkVars, removes, inserts, ins_pos>>

MovesNext == Annotate \/ NextInsert \/ WalkMatch \/ WalkCloseOut

SpecMoves == MovesInit /\ [][MovesNext]_vars

\* opcodes_with_metadata has returned groups.
MovesDone == pc = "done"

(***************************************************************************)
(* opcodes_with_metadata on a block of lines moved across unchanged lines: *)
(* the original file is a block D followed by unchanged lines E and the    *)
(* new file is E followed by a block I, or the other way round; the differ *)
(* reports a delete of D, the equal lines E and an insert of I, and that   *)
(* is a shortest edit script (no alignment keeps more lines, even for a    *)
(* differ that ignores whitespace).                                        *)
(***************************************************************************)
MaxBlock == 3           \* most lines of the deleted and of the inserted block
MaxSeparator == 2       \* most unchanged lines between the two blocks

\* The unchanged lines: a line of its own, or the short line of LinePool.
SeparatorPool == { <<"b", "b", "b", "b">>, <<"x", "=", "1">> }

\* Two lines are the same to a differ that ignores whitespace.
SameToDiffer(x, y) == WHITESPACE_RE_sub(x) = WHITESPACE_RE_sub(y)

\* The length of a longest common subsequence of the first i lines of fa
\* and the first j lines of fb.
RECURSIVE LCSLen(_, _, _, _)
LCSLen(fa, fb, i, j) ==
    IF i = 0 \/ j = 0 THEN 0
    ELSE IF SameToDiffer(fa[i], fb[j]) THEN 1 + LCSLen(fa, fb, i - 1, j - 1)
    ELSE Max(LCSLen(fa, fb, i - 1, j), LCSLen(fa, fb, i, j - 1))

RECURSIVE EqualLineCount(_)
EqualLineCount(ops) ==
    IF ops = <<>> THEN 0
    ELSE (IF Tag(Head(ops)) = "equal" THEN I2(Head(ops)) - I1(Head(ops)) ELSE 0)
         + EqualLineCount(Tail(ops))

ShortestScript(ops, fa, fb) ==
    EqualLineCount(ops) = LCSLen(fa, fb, Len(fa), Len(fb))

NonEmptySeqsUpTo(S, n) == UNION {[1..k -> S] : k \in 1..n}

MoveBlocksInitWith(pool, maxBlock) ==
    /\ \E D \in NonEmptySeqsUpTo(pool, maxBlock),
          I \in NonEmptySeqsUpTo(pool, maxBlock),
          e \in SeparatorPool,
          n \in 1..MaxSeparator,
          deleteFirst \in BOOLEAN :
        LET E == [k \in 1..n |-> e]
            fa == IF deleteFirst THEN D \o E ELSE E \o D
            fb == IF deleteFirst THEN E \o I ELSE I \o E
            ops == IF deleteFirst
                   THEN << <<"delete", 0, Len(D), 0, 0>>,
                           <<"equal", Len(D), Len(D) + n, 0, n>>,
                           <<"insert", Len(D) + n, Len(D) + n, n, n + Len(I)>> >>
                   ELSE << <<"insert", 0, 0, 0, Len(I)>>,
                           <<"equal", 0, n, Len(I), Len(I) + n>>,
                           <<"delete", n, n + Len(D), Len(I) + n, Len(I) + n>> >>
        IN /\ Aligns(ops, fa, fb)
           /\ ShortestScript(ops, fa, fb)
           /\ a = fa /\ b = fb /\ opcodes = ops
    /\ pc = "annotate"
    /\ groups = <<>>
    /\ removes = EmptyMap
    /\ inserts = <<>>
    /\ ins_pos = 0
    /\ i_move_cur = 0
    /\ i_move_range = <<0, 0>>
    /\ r_move_ranges = EmptyMap
    /\ raised = "none"
    /\ ExtraIdle /\ NewlinesIdle /\ ChunksIdle

MoveBlocksInit == MoveBlocksInitWith(LinePool, MaxBlock)

SpecMoveBlocks == MoveBlocksInit /\ [][MovesNext]_vars

(***************************************************************************)
(* Claims about opcodes_with_metadata.                                     *)
(***************************************************************************)
GroupsOf(tag) == {g \in 1..Len(groups) : groups[g].tag = tag}

\* The 1-based lines of the old file a delete group covers, and those of
\* the new file an insert group covers.
OldLines(g) == (groups[g].i1 + 1)..groups[g].i2
NewLines(g) == (groups[g].j1 + 1)..groups[g].j2

Moved(g) == groups[g].meta.moved

\* Old line old and new line new have the same text once stripped.
SameStripped(old, new) == Strip(a[old]) = Strip(b[new])

\* C4 as stated: once opcodes_with_metadata has returned, every entry
\* old -> new of the moved meta of a delete opcode, and every entry
\* new -> old of the moved meta of an insert opcode, pairs an old line and a
\* new line that are equal after stripping leading and trailing whitespace.
C4_AsStated ==
    MovesDone =>
        /\ \A g \in GroupsOf("delete") :
               \A old \in DOMAIN Moved(g) : SameStripped(old, Moved(g)[old])
        /\ \A g \in GroupsOf("insert") :
               \A new \in DOMAIN Moved(g) : SameStripped(Moved(g)[new], new)

\* C5: once opcodes_with_metadata has returned, for every entry old -> new
\* of the moved meta of a delete opcode some insert opcode has the inverse
\* entry new -> old in its moved meta, however many insert opcodes were
\* walked.
C5_InverseEntry ==
    MovesDone =>
        \A d \in GroupsOf("delete") :
            \A old \in DOMAIN Moved(d) :
                \E g \in GroupsOf("insert") :
                    /\ Moved(d)[old] \in DOMAIN Moved(g)
                    /\ Moved(g)[Moved(d)[old]] = old

\* C5 witness: two insert opcodes were walked one after the other, both
\* recorded a move, and a delete opcode carries moved entries.
C5_Witness ==
    /\ MovesDone
    /\ \E d \in GroupsOf("delete") : DOMAIN Moved(d) # {}
    /\ \E g1, g2 \in GroupsOf("insert") :
        g1 # g2 /\ DOMAIN Moved(g1) # {} /\ DOMAIN Moved(g2) # {}

\* A line that passes the validity test of a move: at least 4 characters
\* and an alphanumeric character once stripped.
ValidLine(line) ==
    /\ Len(Strip(line)) >= 4
    /\ \E k \in 1..Len(Strip(line)) : Strip(line)[k] \in AlphanumChars

\* Some deleted line has the stripped text of the new line new.
HasRemoved(new) ==
    \E d \in GroupsOf("delete") : \E old \in OldLines(d) : SameStripped(old, new)

\* C6 as stated: a valid line of a delete opcode that reappears as a line of
\* an insert opcode gets the move recorded on both sides, also when the
\* matched run is that single line.  Stated for the plainest case: the line
\* opens the insert block, it was deleted at one place only, and the line
\* that follows the insert block in the new file is not a deleted line.
C6_AsStated ==
    MovesDone =>
        \A d \in GroupsOf("delete"), g \in GroupsOf("insert") :
            \A old \in OldLines(d) :
                LET new == groups[g].j1 + 1
                IN (/\ SameStripped(old, new)
                    /\ ValidLine(a[old])
                    /\ \A d2 \in GroupsOf("delete") : \A old2 \in OldLines(d2) :
                           SameStripped(old2, new) => old2 = old
                    /\ (groups[g].j2 + 1 <= Len(b) => ~HasRemoved(groups[g].j2 + 1)))
                   => /\ old \in DOMAIN Moved(d) /\ Moved(d)[old] = new
                      /\ new \in DOMAIN Moved(g) /\ Moved(g)[new] = old

\* The lines of the insert group g match, line for line, the deleted lines
\* that start at the 1-based old line r.
MatchesRun(g, r) ==
    \A k \in 0..(groups[g].j2 - groups[g].j1 - 1) :
        /\ \E d \in GroupsOf("delete") : (r + k) \in OldLines(d)
        /\ SameStripped(r + k, groups[g].j1 + 1 + k)

\* C7 as stated: when the lines of an insert block match, line for line,
\* two different runs of deleted lines of the same length, no move is
\* recorded for that insert block: its moved meta is empty and no delete
\* opcode has a moved entry that leads into it.
C7_AsStated ==
    MovesDone =>
        \A g \in GroupsOf("insert") :
            (\E r1, r2 \in 1..Len(a) :
                r1 # r2 /\ MatchesRun(g, r1) /\ MatchesRun(g, r2))
            => /\ DOMAIN Moved(g) = {}
               /\ \A d \in GroupsOf("delete") :
                      \A old \in DOMAIN Moved(d) : Moved(d)[old] \notin NewLines(g)

\* The offsets k of the pairs of a group whose two lines are equal once
\* every whitespace character is removed.
WhitespacePairs(g) ==
    {k \in 0..(groups[g].i2 - groups[g].i1 - 1) :
        WHITESPACE_RE_sub(a[groups[g].i1 + k + 1]) =
            WHITESPACE_RE_sub(b[groups[g].j1 + k + 1])}

\* C8: for every replace opcode of as many lines on both sides,
\* whitespace_lines is exactly the 1-based pairs (i1+k+1, j1+k+1) whose lines
\* are equal once all whitespace is removed, in increasing k, and
\* whitespace_chunk is true exactly when every pair of the opcode is in the
\* list; for every equal, insert and delete opcode whitespace_chunk is false
\* and whitespace_lines is empty.
C8_WhitespaceAnnotation ==
    \A g \in 1..Len(groups) :
        LET wl == groups[g].meta.whitespace_lines
            n == groups[g].i2 - groups[g].i1
        IN IF groups[g].tag = "replace"
           THEN /\ groups[g].j2 - groups[g].j1 = n
                /\ {wl[x] : x \in 1..Len(wl)} =
                       {<<groups[g].i1 + k + 1, groups[g].j1 + k + 1>> :
                            k \in WhitespacePairs(g)}
                /\ \A x, y \in 1..Len(wl) : x < y => wl[x][1] < wl[y][1]
                /\ groups[g].meta.whitespace_chunk <=> (WhitespacePairs(g) = 0..(n - 1))
           ELSE /\ groups[g].meta.whitespace_chunk = FALSE
                /\ wl = <<>>

\* C8 witness: opcodes_with_metadata has returned a replace opcode of at
\* least two lines of which some pairs, not all, differ in whitespace only.
C8_Witness ==
    /\ MovesDone
    /\ \E g \in GroupsOf("replace") :
        /\ groups[g].i2 - groups[g].i1 >= 2
        /\ WhitespacePairs(g) # {}
        /\ WhitespacePairs(g) # 0..(groups[g].i2 - groups[g].i1 - 1)
        /\ Len(groups[g].meta.whitespace_lines) = Cardinality(WhitespacePairs(g))

(***************************************************************************)
(* get_chunks, the choice of the markup of the two sides (lines 632-678).  *)
(*                                                                         *)
(* A file is known by its number of lines, its length in bytes (every line *)
(* ends in a newline) and the length of its longest line.  The highlighter *)
(* either returns the styled lines of a file or raises.                    *)
(***************************************************************************)
STYLED_MAX_LINE_LEN == 1000
STYLED_MAX_LIMIT_BYTES == 200000

HlThreshold == 200      \* the configured diffviewer_syntax_highlighting_threshold

FileShapes ==
    {f \in [lines : {0, 1, HlThreshold, HlThreshold + 1},
            longest : {0, 1, STYLED_MAX_LINE_LEN, STYLED_MAX_LINE_LEN + 1},
            bytes : {0, 2, 2 * HlThreshold, STYLED_MAX_LINE_LEN + 1,
                     STYLED_MAX_LINE_LEN + 2, STYLED_MAX_LIMIT_BYTES,
                     STYLED_MAX_LIMIT_BYTES + 1}] :
        /\ f.lines = 0 => (f.bytes = 0 /\ f.longest = 0)
        /\ f.lines > 0 => /\ f.longest + f.lines <= f.bytes
                          /\ f.bytes <= f.lines * (f.longest + 1)}

HighlightInit ==
    /\ enable_syntax_highlighting \in BOOLEAN
    /\ threshold \in {0, HlThreshold}       \* 0: no threshold configured
    /\ old_data \in FileShapes
    /\ new_data \in FileShapes
    /\ pygments_raises \in SUBSET {"a", "b"}
    /\ markup_a = "None"
    /\ markup_b = "None"
    /\ raised = "none"
    /\ NewlinesIdle /\ DifferIdle /\ MovesIdle /\ ChunksIdle
    /\ RegionsIdle
    /\ RangeIdle
    /\ RegisterIdle
    /\ DiffFilesIdle

\* enable_syntax_highlighting after the three tests of lines 638-659.
StillEnabled(enable, thr, o, n) ==
    /\ enable
    /\ ~(thr # 0 /\ (o.lines > thr \/ n.lines > thr))
    /\ ~(o.bytes > STYLED_MAX_LIMIT_BYTES \/ n.bytes > STYLED_MAX_LIMIT_BYTES)
    /\ ~(o.longest > STYLED_MAX_LINE_LEN \/ n.longest > STYLED_MAX_LINE_LEN)

\* markup_a and markup_b after the try block of lines 666-672: markup_b is
\* assigned only if neither call of apply_pygments raised.
Pygmentized(enabled, raises) ==
    [a |-> IF enabled /\ "a" \notin raises THEN "styled" ELSE "None",
     b |-> IF enabled /\ raises = {} THEN "styled" ELSE "None"]

\* "if not markup: markup = NEWLINES_RE.split(escape(...))": None and the
\* empty list of styled lines of an empty file are replaced.
OrEscaped(markup, f) ==
    IF markup = "None" \/ f.lines = 0 THEN "escaped" ELSE markup

\* Lines 632-678 of get_chunks.
ChooseMarkup ==
    /\ markup_a = "None"
    /\ LET enabled == StillEnabled(enable_syntax_highlighting, threshold,
                                   old_data, new_data)
           m == Pygmentized(enabled, pygments_raises)
       IN /\ enable_syntax_highlighting' = enabled
          /\ markup_a' = OrEscaped(m.a, old_data)
          /\ markup_b' = OrEscaped(m.b, new_data)
    /\ UNCHANGED <<threshold, old_data, new_data, pygments_raises>>
    /\ UNCHANGED <<nlVars, differVars, moveVars, chunkVars, raised, sortVars, regVars, rangeVars, regionVars>>

HighlightNext == ChooseMarkup

SpecHighlight == HighlightInit /\ [][HighlightNext]_vars

\* C11 as stated: the markup of both sides is the escaped plain text
\* whenever the enable flag is off, a side has more lines than the
\* configured threshold, a side is longer than 200000 bytes, a line of a
\* side is longer than 1000 characters, or the highlighter raises on either
\* side.
C11_AsStated ==
    [][(\/ ~enable_syntax_highlighting
        \/ (threshold # 0 /\ (old_data.lines > threshold
                              \/ new_data.lines > threshold))
        \/ old_data.bytes > 200000 \/ new_data.bytes > 200000
        \/ old_data.longest > 1000 \/ new_data.longest > 1000
        \/ pygments_raises # {})
       => (markup_a' = "escaped" /\ markup_b' = "escaped")]_vars

(***************************************************************************)
(* File names, for get_diff_files and                                      *)
(* register_interesting_lines_for_filename.                                *)
(***************************************************************************)
\* ord(c) for the characters the file names are made of.
CharCode ==
    "." :> 46 @@ "/" :> 47 @@ "a" :> 97 @@ "b" :> 98 @@ "c" :> 99 @@ "h" :> 104 @@ "r" :> 114 @@ "s" :> 115

\* cmp(x, y) for two integers.
IntCmp(x, y) == IF x < y THEN -1 ELSE IF x > y THEN 1 ELSE 0

\* cmp(x, y) for two strings: by the first character that differs, a proper
\* prefix coming first.
RECURSIVE StrCmp(_, _)
StrCmp(x, y) ==
    IF x = <<>> /\ y = <<>> THEN 0
    ELSE IF x = <<>> THEN -1
    ELSE IF y = <<>> THEN 1
    ELSE IF Head(x) # Head(y) THEN IntCmp(CharCode[Head(x)], CharCode[Head(y)])
    ELSE StrCmp(Tail(x), Tail(y))

\* str.rfind(c): the 0-based index of the last c in s, or -1.
RFind(s, c) ==
    IF \E k \in 1..Len(s) : s[k] = c
    THEN (CHOOSE k \in 1..Len(s) :
              s[k] = c /\ \A k2 \in (k + 1)..Len(s) : s[k2] # c) - 1
    ELSE -1

\* os.path.splitext(p): the extension starts at the last dot of the last
\* path component, unless only dots precede it in that component.
splitext(p) ==
    LET sepIndex == RFind(p, "/")
        dotIndex == RFind(p, ".")
    IN IF /\ dotIndex > sepIndex
          /\ \E k \in (sepIndex + 1)..(dotIndex - 1) : p[k + 1] # "."
       THEN <<SubSeq(p, 1, dotIndex), SubSeq(p, dotIndex + 1, Len(p))>>
       ELSE <<p, <<>> >>

(***************************************************************************)
(* get_diff_files (diffutils.py:1077-1156): the records and their order.   *)
(***************************************************************************)
MaxFiles == 3           \* most filediffs of a diffset

PathPool ==
    { <<"a", ".", "c">>,
      <<"a", ".", "h">>,
      <<"b", ".", "c">>,
      <<"s", "r", "c", "/", "a", ".", "c">>,
      <<"s", "r", "c", "/", "a", ".", "h">>,
      <<"s", "r", "c", "/", "b", ".", "c">>,
      <<"s", "r", "c", "/", "a">>,
      <<"s", "r", "c", "/", ".", "h">>,
      <<"s", "r", "c", "/", "a", ".", "b", ".", "c">>,
      <<"s", "r", "a", "/", "b", ".", "c">> }

\* The record of a filediff (lines 1107-1136): of its keys the model keeps
\* basepath, basename and index.
FileRecord(source_file, index) ==
    LET i == RFind(source_file, "/")
    IN IF i # -1
       THEN [basepath |-> SubSeq(source_file, 1, i),
             basename |-> SubSeq(source_file, i + 2, Len(source_file)),
             index |-> index]
       ELSE [basepath |-> <<>>, basename |-> source_file, index |-> index]

\* A mutation of cmp_file: the extensions are compared in ascending order.
cmp_file_ext_ascending(x, y) ==
    IF x.basepath # y.basepath THEN StrCmp(x.basepath, y.basepath)
    ELSE LET xs == splitext(x.basename)
             ys == splitext(y.basename)
         IN IF xs[1] # ys[1] THEN StrCmp(xs[1], ys[1])
            ELSE StrCmp(xs[2], ys[2])

cmp_file(x, y) ==
    IF x.basepath # y.basepath THEN StrCmp(x.basepath, y.basepath)
    ELSE LET xs == splitext(x.basename)
             ys == splitext(y.basename)
         IN IF xs[1] # ys[1] THEN StrCmp(xs[1], ys[1])
            ELSE StrCmp(ys[2], xs[2])

\* list.sort(cmp_file): a stable sort; each record goes behind the records
\* already placed that do not compare greater.
RECURSIVE InsertSorted(_, _)
InsertSorted(sorted, x) ==
    IF sorted = <<>> THEN <<x>>
    ELSE IF cmp_file(sorted[Len(sorted)], x) <= 0 THEN Append(sorted, x)
    ELSE Append(InsertSorted(SubSeq(sorted, 1, Len(sorted) - 1), x),
                sorted[Len(sorted)])

RECURSIVE SortFiles(_)
SortFiles(fs) ==
    IF fs = <<>> THEN <<>>
    ELSE InsertSorted(SortFiles(SubSeq(fs, 1, Len(fs) - 1)), fs[Len(fs)])

DiffFilesInit ==
    /\ filediffs \in SeqsUpTo(PathPool, MaxFiles)
    /\ files = <<>>
    /\ files_returned = FALSE
    /\ raised = "none"
    /\ NewlinesIdle /\ DifferIdle /\ MovesIdle /\ ChunksIdle
    /\ RegionsIdle
    /\ RangeIdle
    /\ RegisterIdle
    /\ HighlightIdle

\* get_diff_files from line 1077 on: a record per filediff, then the sort.
GetDiffFiles ==
    /\ ~files_returned
    /\ files' = SortFiles([k \in 1..Len(filediffs) |->
                              FileRecord(filediffs[k], k - 1)])
    /\ files_returned' = TRUE
    /\ UNCHANGED filediffs
    /\ UNCHANGED <<nlVars, differVars, moveVars, chunkVars, raised, hlVars, regVars, rangeVars, regionVars>>

DiffFilesNext == GetDiffFiles

SpecDiffFiles == DiffFilesInit /\ [][DiffFilesNext]_vars

\* x <= y for two strings.
StrLeq(x, y) == StrCmp(x, y) <= 0

Stem(f) == splitext(f.basename)[1]
Extension(f) == splitext(f.basename)[2]

SrcAC == <<"s", "r", "c", "/", "a", ".", "c">>
SrcAH == <<"s", "r", "c", "/", "a", ".", "h">>
SrcBC == <<"s", "r", "c", "/", "b", ".", "c">>

\* C12: in the list get_diff_files returns, for two consecutive records x
\* before y, x.basepath <= y.basepath; with equal basepaths the stem of x is
\* <= that of y; with equal basepath and stem the extension of x is >= that
\* of y; so src/a.c, src/a.h, src/b.c come out as src/a.h, src/a.c, src/b.c.
C12_Sorted ==
    files_returned =>
        /\ \A k \in 1..(Len(files) - 1) :
            LET x == files[k]
                y == files[k + 1]
            IN /\ StrLeq(x.basepath, y.basepath)
               /\ x.basepath = y.basepath => StrLeq(Stem(x), Stem(y))
               /\ (x.basepath = y.basepath /\ Stem(x) = Stem(y)) =>
                      StrLeq(Extension(y), Extension(x))
        /\ filediffs = <<SrcAC, SrcAH, SrcBC>> =>
            /\ Len(files) = 3
            /\ \A k \in 1..3 : files[k].basepath = <<"s", "r", "c">>
            /\ files[1].basename = <<"a", ".", "h">>
            /\ files[2].basename = <<"a", ".", "c">>
            /\ files[3].basename = <<"b", ".", "c">>

\* C12 witness: get_diff_files has returned the three files of the example,
\* a.h moved ahead of a.c.
C12_Witness ==
    /\ files_returned
    /\ filediffs = <<SrcAC, SrcAH, SrcBC>>
    /\ files[1].index = 1 /\ files[2].index = 0 /\ files[3].index = 2

(***************************************************************************)
(* register_interesting_lines_for_filename (diffutils.py:395-415).         *)
(***************************************************************************)
\* The number of patterns HEADER_REGEXES lists under each key.
HeaderPatternCount ==
    <<".", "c", "s">> :> 2
    @@ <<".", "c">> :> 2
    @@ <<".", "j", "a", "v", "a">> :> 2
    @@ <<".", "j", "s">> :> 2
    @@ <<".", "m">> :> 3
    @@ <<".", "p", "h", "p">> :> 1
    @@ <<".", "p", "l">> :> 1
    @@ <<".", "p", "y">> :> 1
    @@ <<".", "r", "b">> :> 1

\* HEADER_REGEXES: a compiled pattern is told by its key and its position.
HEADER_REGEXES ==
    [k \in DOMAIN HeaderPatternCount |->
        [n \in 1..HeaderPatternCount[k] |-> [key |-> k, pattern |-> n]]]

HEADER_REGEX_ALIASES ==
    <<".", "c", "c">> :> <<".", "c">>
    @@ <<".", "c", "p", "p">> :> <<".", "c">>
    @@ <<".", "c", "x", "x">> :> <<".", "c">>
    @@ <<".", "c", "+", "+">> :> <<".", "c">>
    @@ <<".", "h">> :> <<".", "c">>
    @@ <<".", "h", "h">> :> <<".", "c">>
    @@ <<".", "h", "p", "p">> :> <<".", "c">>
    @@ <<".", "h", "x", "x">> :> <<".", "c">>
    @@ <<".", "h", "+", "+">> :> <<".", "c">>
    @@ <<".", "C">> :> <<".", "c">>
    @@ <<".", "H">> :> <<".", "c">>
    @@ <<".", "m", "m">> :> <<".", "m">>
    @@ <<".", "p", "m">> :> <<".", "p", "l">>
    @@ <<"S", "C", "o", "n", "s", "t", "r", "u", "c", "t">> :> <<".", "p", "y">>
    @@ <<"S", "C", "o", "n", "s", "c", "r", "i", "p", "t">> :> <<".", "p", "y">>
    @@ <<".", "p", "y", "w">> :> <<".", "p", "y">>
    @@ <<".", "s", "c">> :> <<".", "p", "y">>
    @@ <<"R", "a", "k", "e", "f", "i", "l", "e">> :> <<".", "r", "b">>
    @@ <<".", "r", "b", "w">> :> <<".", "r", "b">>
    @@ <<".", "r", "a", "k", "e">> :> <<".", "r", "b">>
    @@ <<".", "g", "e", "m", "s", "p", "e", "c">> :> <<".", "r", "b">>
    @@ <<".", "r", "b", "x">> :> <<".", "r", "b">>

\* The name file is no parameter and no global of the module: at line 404 it
\* is the builtin type, a value that is no key of a dictionary of strings.
file == <<"<type 'file'>">>

Rakefile == <<"R", "a", "k", "e", "f", "i", "l", "e">>
SConstruct == <<"S", "C", "o", "n", "s", "t", "r", "u", "c", "t">>
SConscript == <<"S", "C", "o", "n", "s", "c", "r", "i", "p", "t">>

DirPool == {<<>>, <<"l", "i", "b", "/">>, <<"l", "i", "b", ".", "d", "/">>}
StemPool == {<<"x">>, <<"R", "a", "k", "e", "f", "i", "l", "e">>, <<"a", ".", "b">>}
ExtPool ==
    DOMAIN HeaderPatternCount
    \cup {k \in DOMAIN HEADER_REGEX_ALIASES : Head(k) = "."}
    \cup {<<>>, <<".", "t", "x", "t">>}

FilenamePool ==
    {d \o n : d \in DirPool,
              n \in {Rakefile, SConstruct, SConscript}
                    \cup {s \o e : s \in StemPool, e \in ExtPool}}

RegisterInit ==
    /\ filename \in FilenamePool
    /\ interesting_line_regexes = <<>>
    /\ registered = FALSE
    /\ raised = "none"
    /\ NewlinesIdle /\ DifferIdle /\ MovesIdle /\ ChunksIdle
    /\ RegionsIdle
    /\ RangeIdle
    /\ HighlightIdle
    /\ DiffFilesIdle

register_interesting_lines_for_filename ==
    /\ ~registered
    /\ LET ext == splitext(filename)[2]
           regexes ==
               IF file \in DOMAIN HEADER_REGEX_ALIASES
               THEN HEADER_REGEXES[HEADER_REGEX_ALIASES[filename]]
               ELSE IF ext \in DOMAIN HEADER_REGEXES
               THEN HEADER_REGEXES[ext]
               ELSE IF ext \in DOMAIN HEADER_REGEX_ALIASES
               THEN HEADER_REGEXES[HEADER_REGEX_ALIASES[ext]]
               ELSE <<>>
       IN interesting_line_regexes' =
              [n \in 1..Len(regexes) |-> [name |-> "header", regex |-> regexes[n]]]
    /\ registered' = TRUE
    /\ UNCHANGED filename
    /\ UNCHANGED <<nlVars, differVars, moveVars, chunkVars, raised, hlVars, sortVars, rangeVars, regionVars>>

RegisterNext == register_interesting_lines_for_filename

SpecRegister == RegisterInit /\ [][RegisterNext]_vars

\* C13: once register_interesting_lines_for_filename has returned for a bare
\* file name that is a key of the alias table (Rakefile, SConstruct,
\* SConscript), the differ holds the header patterns of the alias target.
C13_AsStated ==
    (registered /\ filename \in {Rakefile, SConstruct, SConscript}) =>
        interesting_line_regexes =
            [n \in 1..Len(HEADER_REGEXES[HEADER_REGEX_ALIASES[filename]]) |->
                [name |-> "header",
                 regex |-> HEADER_REGEXES[HEADER_REGEX_ALIASES[filename]][n]]]

(***************************************************************************)
(* get_file_chunks_in_range (diffutils.py:1290-1332).  A line is modelled  *)
(* by its element 0, the virtual line number.                              *)
(***************************************************************************)
MaxRangeChunks == 3     \* most chunks of the file
MaxChunkLen == 3        \* most lines of a chunk
MaxNumLines == 10       \* largest num_lines asked for

\* The chunks of a file whose chunks have the given sizes: virtual line
\* numbers run from 1 without a gap.
RECURSIVE ChunksOfSizes(_, _)
ChunksOfSizes(sizes, first) ==
    IF sizes = <<>> THEN <<>>
    ELSE <<[k \in 1..Head(sizes) |-> first + k - 1]>>
         \o ChunksOfSizes(Tail(sizes), first + Head(sizes))

\* A mutation of RangeIndexes: last_index is start_index + num_lines even
\* when the range runs past the chunk.
RangeIndexesNoClamp(lines, first, num) ==
    LET start_index == first - lines[1]
    IN <<start_index, start_index + num>>

\* start_index and last_index (lines 1299-1304).
RangeIndexes(lines, first, num) ==
    LET start_index == first - lines[1]
    IN <<start_index,
         IF first + num <= lines[Len(lines)]
         THEN start_index + num
         ELSE Len(lines)>>

\* find_header (lines 1259-1265): the last header above first_line.  A
\* header is modelled by its element 0, its line number.
find_header(headers, first) ==
    LET above == {k \in 1..Len(headers) : headers[k] < first}
    IN IF above = {} THEN NoHeader
       ELSE headers[CHOOSE k \in above : \A o \in above : o <= k]

\* The meta of a chunk: has_lists says that the keys left_headers and
\* right_headers are there; headers is <<>> while the key is not there.
ChunkMeta(left_headers, right_headers) ==
    [has_lists |-> TRUE, left_headers |-> left_headers,
     right_headers |-> right_headers, headers |-> <<>>]

\* The state at the entry of the for loop for a file not yet in the context.
RangeEntry(metas) ==
    /\ range_meta = metas
    /\ populated_meta = metas
    /\ range_last_header = <<NoHeader, NoHeader>>
    /\ range_calls = 1
    /\ first_line \in 1..Len(Concat(range_chunks))
    /\ requested = <<first_line, num_lines>>
    /\ chunk_pos = 1
    /\ range_yielded = <<>>
    /\ range_pc = "loop"
    /\ raised = "none"

RangeInit ==
    /\ \E sizes \in UNION {[1..k -> 1..MaxChunkLen] : k \in 1..MaxRangeChunks} :
           range_chunks = ChunksOfSizes(sizes, 1)
    /\ num_lines \in 1..MaxNumLines
    /\ RangeEntry([k \in 1..Len(range_chunks) |-> ChunkMeta(<<>>, <<>>)])
    /\ NewlinesIdle /\ DifferIdle /\ MovesIdle /\ ChunksIdle
    /\ RegionsIdle
    /\ HighlightIdle
    /\ DiffFilesIdle
    /\ RegisterIdle

\* One iteration of the for loop over files[0]['chunks'].
RangeStep ==
    /\ range_pc = "loop"
    /\ LET lines == range_chunks[chunk_pos]
           meta == range_meta[chunk_pos]
           last == chunk_pos = Len(range_chunks)
           cur_header == IF /\ meta.headers # <<>>
                            /\ \/ meta.headers[1] # NoHeader
                               \/ meta.headers[2] # NoHeader
                         THEN meta.headers
                         ELSE range_last_header
       IN /\ range_last_header' = cur_header
          /\ IF lines[Len(lines)] >= first_line /\ first_line >= lines[1]
              THEN LET ix == RangeIndexes(lines, first_line, num_lines)
                       left_header == find_header(meta.left_headers, first_line)
                       right_header == find_header(meta.right_headers, first_line)
                       header == IF left_header # NoHeader \/ right_header # NoHeader
                                 THEN <<left_header, right_header>>
                                 ELSE cur_header
                       \* new_chunk['meta'] is the dict of the cached chunk
                       new_meta == IF meta.has_lists
                                   THEN [has_lists |-> FALSE,
                                         left_headers |-> <<>>,
                                         right_headers |-> <<>>,
                                         headers |-> header]
                                   ELSE meta
                       range_chunk == [lines |-> Slice(lines, ix[1], ix[2]),
                                     numlines |-> ix[2] - ix[1],
                                     meta |-> new_meta]
                   IN /\ range_yielded' = Append(range_yielded, range_chunk)
                      /\ range_meta' = [range_meta EXCEPT ![chunk_pos] = new_meta]
                      /\ first_line' = first_line + range_chunk.numlines
                      /\ num_lines' = num_lines - range_chunk.numlines
                      /\ IF num_lines' < 0
                         THEN /\ raised' = "AssertionError"
                              /\ range_pc' = "raised"
                              /\ UNCHANGED chunk_pos
                         ELSE /\ UNCHANGED raised
                              /\ range_pc' = IF num_lines' = 0 \/ last
                                             THEN "done" ELSE "loop"
                              /\ chunk_pos' = IF num_lines' = 0 \/ last
                                              THEN chunk_pos ELSE chunk_pos + 1
              ELSE /\ range_pc' = IF last THEN "done" ELSE "loop"
                   /\ chunk_pos' = IF last THEN chunk_pos ELSE chunk_pos + 1
                   /\ UNCHANGED <<range_yielded, first_line, num_lines, raised,
                                  range_meta>>
    /\ UNCHANGED <<range_chunks, requested, populated_meta, range_calls>>
    /\ UNCHANGED <<nlVars, differVars, moveVars, chunkVars, hlVars, sortVars, regVars, regionVars>>

RangeNext == RangeStep

SpecRange == RangeInit /\ [][RangeNext]_vars

RangeYieldedLines == Concat([k \in 1..Len(range_yielded) |-> range_yielded[k].lines])

\* C14: the lines yielded, in order, are at the end the lines numbered
\* first_line .. min(first_line + num_lines - 1, N) of the request; every
\* yielded chunk's numlines is the number of its lines; the assertion never
\* fails; and the loop has stopped when num_lines lines have been yielded.
C14_Range ==
    LET N == Len(Concat(range_chunks))
        lo == requested[1]
        hi == Min(requested[1] + requested[2] - 1, N)
    IN range_pc # "idle" =>
        /\ raised = "none" /\ range_pc # "raised"
        /\ \A k \in 1..Len(range_yielded) :
               range_yielded[k].numlines = Len(range_yielded[k].lines)
        /\ \E n \in 0..(hi - lo + 1) :
               RangeYieldedLines = [k \in 1..n |-> lo + k - 1]
        /\ range_pc = "done" =>
               RangeYieldedLines = [k \in 1..(hi - lo + 1) |-> lo + k - 1]
        /\ Len(RangeYieldedLines) = requested[2] => range_pc = "done"

\* C14 witness: a range that starts inside one chunk and ends inside a later
\* one, before the end of the file, has been served.
C14_Witness ==
    /\ range_pc = "done"
    /\ Len(range_yielded) >= 2
    /\ requested[1] > range_chunks[1][1]
    /\ chunk_pos < Len(range_chunks)
    /\ Len(range_yielded[1].lines) < Len(range_chunks[1])
    /\ Len(RangeYieldedLines) = requested[2]

\* C15: when the differ's opcodes hold a replace whose two ranges differ in
\* length, opcodes_with_metadata raises nothing, and the group it builds for
\* that opcode has whitespace_chunk false and no whitespace_lines.
C15_AsStated ==
    pc # "idle" =>
        \A k \in 1..Len(opcodes) :
            (Tag(opcodes[k]) = "replace"
             /\ I2(opcodes[k]) - I1(opcodes[k]) # J2(opcodes[k]) - J1(opcodes[k])) =>
                /\ raised = "none"
                /\ k <= Len(groups) =>
                       /\ groups[k].meta.whitespace_chunk = FALSE
                       /\ groups[k].meta.whitespace_lines = <<>>

(***************************************************************************)
(* get_chunks on files with header lines: the differ's                     *)
(* get_interesting_lines('header', side) is not empty.                     *)
(***************************************************************************)
MaxHeaderLines == 7     \* most lines of either file
MaxHeaderOps == 2       \* most opcodes
MaxHeaderContext == 1   \* largest diffviewer_context_num_lines
MaxHeaders == 2         \* most header lines of either file

RECURSIVE SortedSeq(_)
SortedSeq(S) ==
    IF S = {} THEN <<>>
    ELSE LET x == CHOOSE y \in S : \A z \in S : y <= z
         IN <<x>> \o SortedSeq(S \ {x})

\* The lines of an equal opcode are the same on both sides, so a line is a
\* header on both or on neither.
HeadersAgree(ops, HL, HR) ==
    \A k \in 1..Len(ops) :
        Tag(ops[k]) = "equal" =>
            \A d \in 0..(I2(ops[k]) - I1(ops[k]) - 1) :
                (I1(ops[k]) + d \in HL) <=> (J1(ops[k]) + d \in HR)

HeadersInit ==
    \E ops \in OpcodeSeqsFrom(0, 0, "none", MaxHeaderOps, MaxHeaderLines),
       ctx \in 0..MaxHeaderContext :
        \E HL \in SUBSET (0..(EndOfA(ops) - 1)),
           HR \in SUBSET (0..(EndOfB(ops) - 1)) :
            /\ Cardinality(HL) <= MaxHeaders
            /\ Cardinality(HR) <= MaxHeaders
            /\ HeadersAgree(ops, HL, HR)
            /\ ChunksInitWithHeaders(ops, ctx, <<SortedSeq(HL), SortedSeq(HR)>>)

SpecHeaders == HeadersInit /\ [][ChunksNext]_vars

\* The 1-based line numbers of the header lines of a side (1 the original,
\* 2 the new file).
HeaderLines(side) ==
    {possible_functions[side][k] + 1 : k \in 1..Len(possible_functions[side])}

\* The line number a rendered line has on a side.
SideLineNum(line, side) == IF side = 1 THEN line.oldlinenum ELSE line.newlinenum

\* C16: for every chunk that carries meta.headers, each side of headers that
\* is not None is the last header line of that side at or before the chunk's
\* first line, so never a header after the first line of the chunk.
C16_AsStated ==
    \A k \in 1..Len(chunks) :
        chunks[k].headers # <<>> =>
            \A side \in {1, 2} :
                chunks[k].headers[side] # NoHeader =>
                    LET first == SideLineNum(chunks[k].lines[1], side)
                        before == {h \in HeaderLines(side) : h <= first}
                    IN /\ chunks[k].headers[side] \in before
                       /\ \A h \in before : h <= chunks[k].headers[side]

\* The headers of a side that lie in a chunk: between the line numbers of
\* its first and of its last line.
HeadersWithin(c, side) ==
    LET first == SideLineNum(c.lines[1], side)
        last == SideLineNum(c.lines[Len(c.lines)], side)
    IN IF first = Blank \/ last = Blank THEN {}
       ELSE {h \in HeaderLines(side) : first <= h /\ h <= last}

SeqToSet(s) == {s[k] : k \in 1..Len(s)}

\* C17: every chunk's left_headers (right_headers) is the list of the header
\* lines of the original (new) file from the chunk's first line to its last,
\* both included, and when get_chunks is through every header line that lies
\* in a chunk is in the list of exactly one chunk.
C17_AsStated ==
    /\ \A k \in 1..Len(chunks) :
        /\ chunks[k].left_headers = SortedSeq(HeadersWithin(chunks[k], 1))
        /\ chunks[k].right_headers = SortedSeq(HeadersWithin(chunks[k], 2))
    /\ ChunksDone =>
        \A k \in 1..Len(chunks) :
            /\ \A h \in HeadersWithin(chunks[k], 1) :
                   Cardinality({n \in 1..Len(chunks) :
                                   h \in SeqToSet(chunks[n].left_headers)}) = 1
            /\ \A h \in HeadersWithin(chunks[k], 2) :
                   Cardinality({n \in 1..Len(chunks) :
                                   h \in SeqToSet(chunks[n].right_headers)}) = 1

(***************************************************************************)
(* opcodes_with_metadata on moved blocks of lines made of digits, of       *)
(* symbols, or short.                                                      *)
(***************************************************************************)
MaxTrivialBlock == 2    \* most lines of the deleted and of the inserted block

\* A line of digits, a line of symbols and a short line.
TrivialLinePool ==
    { <<"1", "1", "1", "1">>,
      <<"=", "=", "=", "=">>,
      <<"x", "=", "1">> }

TrivialBlocksInit == MoveBlocksInitWith(TrivialLinePool, MaxTrivialBlock)

SpecTrivialBlocks == TrivialBlocksInit /\ [][MovesNext]_vars

DigitChars == {"1"}     \* the digits among the characters of the lines

\* A line as C18 describes it: stripped, it has fewer than 4 non-whitespace
\* characters, or only digits, or only symbols.
TrivialAsStated(line) ==
    LET s == Strip(line)
    IN \/ Len(WHITESPACE_RE_sub(s)) < 4
       \/ \A k \in 1..Len(s) : s[k] \in DigitChars
       \/ \A k \in 1..Len(s) : s[k] \notin AlphanumChars \cup WhitespaceChars

\* The removed range the close-out picks, and the lines of the matched run:
\* r_start to r_end, both included.
PickedRange ==
    LongestRange(NoRange, FlattenRanges(r_move_ranges, DOMAIN r_move_ranges))

MatchedRun == Slice(a, PickedRange.r1, PickedRange.r2 + 1)

\* A step of the walk that records a move.
RecordsMove == pc = "walk" /\ groups' # groups

\* C18 as stated: no step records a move for a matched run whose lines are
\* all short, digits only or symbols only, and is_valid_move_range is false
\* for every list of such lines.
C18_AsStated ==
    [][/\ RecordsMove =>
            ~ \A k \in 1..Len(MatchedRun) : TrivialAsStated(MatchedRun[k])
       /\ \A lines \in SeqsUpTo(TrivialLinePool, MaxTrivialBlock) :
            (\A k \in 1..Len(lines) : TrivialAsStated(lines[k])) =>
                ~is_valid_move_range(lines)]_vars

\* C18, amended: no step records a move for a matched run whose lines are
\* all, once stripped, shorter than 4 characters or without a letter, digit
\* or underscore, and is_valid_move_range is false for every list of such
\* lines.
C18_NoTrivialMove ==
    [][/\ RecordsMove =>
            \E k \in 1..Len(MatchedRun) :
                /\ Len(Strip(MatchedRun[k])) >= 4
                /\ \E n \in 1..Len(MatchedRun[k]) :
                       MatchedRun[k][n] \in AlphanumChars
       /\ \A lines \in SeqsUpTo(TrivialLinePool, MaxTrivialBlock) :
            (\A k \in 1..Len(lines) :
                \/ Len(Strip(lines[k])) < 4
                \/ \A n \in 1..Len(lines[k]) : lines[k][n] \notin AlphanumChars)
            => ~is_valid_move_range(lines)]_vars

\* C18 witness: a block of two lines of symbols was deleted and inserted
\* again, the walk is through, and no move is recorded.
C18_Witness ==
    /\ MovesDone
    /\ \E d \in GroupsOf("delete"), g \in GroupsOf("insert") :
        /\ groups[d].i2 - groups[d].i1 = 2
        /\ Slice(a, groups[d].i1, groups[d].i2) = Slice(b, groups[g].j1, groups[g].j2)
        /\ \A k \in OldLines(d) :
               \A n \in 1..Len(a[k]) : a[k][n] \notin AlphanumChars
    /\ \A g \in 1..Len(groups) : DOMAIN Moved(g) = {}

(***************************************************************************)
(* get_line_changed_regions (diffutils.py:266-308).  The SequenceMatcher   *)
(* of line 272 is difflib's, with no junk: the longest matching block,     *)
(* the earliest in oldline and then in newline among the longest, then     *)
(* the same to its left and to its right.                                  *)
(***************************************************************************)
MaxLineLen == 4         \* longest oldline and newline

LineChars == {"a", "b", " "}

SetMax(S) == CHOOSE x \in S : \A y \in S : y <= x
SetMin(S) == CHOOSE x \in S : \A y \in S : x <= y

\* The length of the longest common run of x from i and y from j (0-based)
\* that stays below ahi and bhi.
RECURSIVE MatchLen(_, _, _, _, _, _)
MatchLen(x, y, i, j, ahi, bhi) ==
    IF i < ahi /\ j < bhi /\ x[i + 1] = y[j + 1]
    THEN 1 + MatchLen(x, y, i + 1, j + 1, ahi, bhi)
    ELSE 0

\* SequenceMatcher.find_longest_match(alo, ahi, blo, bhi)
find_longest_match(x, y, alo, ahi, blo, bhi) ==
    LET size == SetMax({MatchLen(x, y, i, j, ahi, bhi) :
                           i \in alo..(ahi - 1), j \in blo..(bhi - 1)})
        besti == SetMin({i \in alo..(ahi - 1) :
                           \E j \in blo..(bhi - 1) :
                               MatchLen(x, y, i, j, ahi, bhi) = size})
        bestj == SetMin({j \in blo..(bhi - 1) :
                           MatchLen(x, y, besti, j, ahi, bhi) = size})
    IN <<besti, bestj, size>>

\* The matching blocks <<i, j, size>> between x[alo:ahi] and y[blo:bhi], in
\* order.
RECURSIVE MatchingBlocks(_, _, _, _, _, _)
MatchingBlocks(x, y, alo, ahi, blo, bhi) ==
    IF alo >= ahi \/ blo >= bhi THEN <<>>
    ELSE LET m == find_longest_match(x, y, alo, ahi, blo, bhi)
         IN IF m[3] = 0 THEN <<>>
            ELSE MatchingBlocks(x, y, alo, m[1], blo, m[2])
                 \o <<m>>
                 \o MatchingBlocks(x, y, m[1] + m[3], ahi, m[2] + m[3], bhi)

\* get_matching_blocks joins the blocks that are adjacent on both sides.
RECURSIVE CollapseBlocks(_)
CollapseBlocks(blocks) ==
    IF Len(blocks) < 2 THEN blocks
    ELSE LET m1 == blocks[1]
             m2 == blocks[2]
         IN IF m1[1] + m1[3] = m2[1] /\ m1[2] + m1[3] = m2[2]
            THEN CollapseBlocks(<< <<m1[1], m1[2], m1[3] + m2[3]>> >>
                                \o SubSeq(blocks, 3, Len(blocks)))
            ELSE <<m1>> \o CollapseBlocks(Tail(blocks))

get_matching_blocks(x, y) ==
    CollapseBlocks(MatchingBlocks(x, y, 0, Len(x), 0, Len(y)))

\* SequenceMatcher.get_opcodes(): from <<i, j>> on, over the matching blocks
\* left and the end of both lines.
RECURSIVE OpcodesFrom(_, _, _, _, _)
OpcodesFrom(blocks, i, j, la, lb) ==
    LET ai == IF blocks = <<>> THEN la ELSE blocks[1][1]
        bj == IF blocks = <<>> THEN lb ELSE blocks[1][2]
        gap == IF i < ai /\ j < bj THEN << <<"replace", i, ai, j, bj>> >>
               ELSE IF i < ai THEN << <<"delete", i, ai, j, bj>> >>
               ELSE IF j < bj THEN << <<"insert", i, ai, j, bj>> >>
               ELSE <<>>
    IN IF blocks = <<>> THEN gap
       ELSE gap
            \o << <<"equal", ai, ai + blocks[1][3], bj, bj + blocks[1][3]>> >>
            \o OpcodesFrom(Tail(blocks), ai + blocks[1][3], bj + blocks[1][3],
                           la, lb)

get_opcodes(x, y) == OpcodesFrom(get_matching_blocks(x, y), 0, 0, Len(x), Len(y))

RECURSIVE SumOfSizes(_)
SumOfSizes(blocks) ==
    IF blocks = <<>> THEN 0 ELSE blocks[1][3] + SumOfSizes(Tail(blocks))

\* differ.ratio() < 0.6, ratio() being 2.0 * matches / (len(a) + len(b)).
RatioBelowThreshold(x, y) ==
    10 * SumOfSizes(get_matching_blocks(x, y)) < 3 * (Len(x) + Len(y))

\* str.isspace(): not empty and whitespace only.
IsSpace(s) == s # <<>> /\ \A k \in 1..Len(s) : s[k] \in WhitespaceChars

\* A mutation of BackAfterEqual: an equal run of 3 characters counts as
\* short.
BackAfterEqualUpTo3(op, bk) ==
    IF (I2(op) - I1(op) <= 3) \/ (J2(op) - J1(op) <= 3)
    THEN <<J2(op) - J1(op), I2(op) - I1(op)>>
    ELSE bk

\* back after an equal opcode (lines 289-291).
BackAfterEqual(op, bk) ==
    IF (I2(op) - I1(op) < 3) \/ (J2(op) - J1(op) < 3)
    THEN <<J2(op) - J1(op), I2(op) - I1(op)>>
    ELSE bk

\* oldchanges (newchanges) after a non-equal opcode whose region on that
\* side is start to end (lines 297-305).
AddRegion(changes, line, start, end) ==
    IF changes # <<>> /\ start <= changes[Len(changes)][2]
                      /\ changes[Len(changes)][2] < end
    THEN [changes EXCEPT ![Len(changes)] = <<@[1], end>>]
    ELSE IF ~IsSpace(Slice(line, start, end))
    THEN Append(changes, <<start, end>>)
    ELSE changes

RegionsInit ==
    /\ oldline \in SeqsUpTo(LineChars, MaxLineLen) \ {<<>>}
    /\ newline \in SeqsUpTo(LineChars, MaxLineLen) \ {<<>>}
    /\ oldline # newline
    /\ char_opcodes = <<>>
    /\ region_pos = 0
    /\ oldchanges = <<>>
    /\ newchanges = <<>>
    /\ back = <<0, 0>>
    /\ regions_pc = "start"
    /\ raised = "none"
    /\ NewlinesIdle /\ DifferIdle /\ MovesIdle /\ ChunksIdle
    /\ HighlightIdle
    /\ DiffFilesIdle
    /\ RegisterIdle
    /\ RangeIdle

\* get_line_changed_regions up to the for loop: (None, None) when the ratio
\* is below 0.6.
RegionsStart ==
    /\ regions_pc = "start"
    /\ IF RatioBelowThreshold(oldline, newline)
       THEN /\ regions_pc' = "none"
            /\ UNCHANGED <<char_opcodes, region_pos>>
       ELSE /\ char_opcodes' = get_opcodes(oldline, newline)
            /\ region_pos' = 1
            /\ regions_pc' = IF char_opcodes' = <<>> THEN "done" ELSE "loop"
    /\ UNCHANGED <<oldline, newline, oldchanges, newchanges, back>>
    /\ UNCHANGED <<nlVars, differVars, moveVars, chunkVars, raised, hlVars, sortVars, regVars, rangeVars>>

\* One iteration of the for loop over differ.get_opcodes().
RegionsStep ==
    /\ regions_pc = "loop"
    /\ LET op == char_opcodes[region_pos]
       IN IF Tag(op) = "equal"
          THEN /\ back' = BackAfterEqual(op, back)
               /\ UNCHANGED <<oldchanges, newchanges>>
          ELSE /\ oldchanges' = AddRegion(oldchanges, oldline,
                                          I1(op) - back[1], I2(op))
               /\ newchanges' = AddRegion(newchanges, newline,
                                          J1(op) - back[2], J2(op))
               /\ back' = <<0, 0>>
    /\ region_pos' = region_pos + 1
    /\ regions_pc' = IF region_pos = Len(char_opcodes) THEN "done" ELSE "loop"
    /\ UNCHANGED <<oldline, newline, char_opcodes>>
    /\ UNCHANGED <<nlVars, differVars, moveVars, chunkVars, raised, hlVars, sortVars, regVars, rangeVars>>

RegionsNext == RegionsStart \/ RegionsStep

SpecRegions == RegionsInit /\ [][RegionsNext]_vars

\* The step of the for loop is at a non-equal opcode.
AtNonEqualOpcode ==
    regions_pc = "loop" /\ Tag(char_opcodes[region_pos]) # "equal"

\* The length of the equal run right before the opcode the loop is at.
PrecedingEqualRun ==
    IF region_pos > 1 /\ Tag(char_opcodes[region_pos - 1]) = "equal"
    THEN I2(char_opcodes[region_pos - 1]) - I1(char_opcodes[region_pos - 1])
    ELSE 0

\* The regions of a side after a non-equal opcode from opStart to opEnd on
\* that side, when the preceding equal run is absorbed if its length is in
\* short: the region starts that much earlier, is merged into the previous
\* region when it starts where that one ends, and is otherwise dropped when
\* it is only whitespace.
RegionsAfter(changes, line, opStart, opEnd, short) ==
    LET start == IF PrecedingEqualRun \in short
                 THEN opStart - PrecedingEqualRun ELSE opStart
    IN IF changes # <<>> /\ changes[Len(changes)][2] = start
       THEN SubSeq(changes, 1, Len(changes) - 1)
            \o << <<changes[Len(changes)][1], opEnd>> >>
       ELSE IF IsSpace(Slice(line, start, opEnd)) THEN changes
       ELSE changes \o << <<start, opEnd>> >>

\* C19 as stated: at every non-equal opcode the region of each side starts
\* at the opcode's start moved back over a preceding equal run of 1, 2 or 3
\* characters, is merged into the previous region it touches, and is dropped
\* when it is only whitespace.
C19_AsStated ==
    [][AtNonEqualOpcode =>
        LET op == char_opcodes[region_pos]
        IN /\ oldchanges' = RegionsAfter(oldchanges, oldline, I1(op), I2(op), 1..3)
           /\ newchanges' = RegionsAfter(newchanges, newline, J1(op), J2(op), 1..3)]_vars

\* C19, amended: at every non-equal opcode the region of each side starts at
\* the opcode's start moved back over a preceding equal run of 1 or 2
\* characters (a run of 3 or more is not absorbed), is merged into the
\* previous region of that side when it starts where that region ends, and
\* is otherwise dropped when it is only whitespace.
C19_Regions ==
    [][AtNonEqualOpcode =>
        LET op == char_opcodes[region_pos]
        IN /\ oldchanges' = RegionsAfter(oldchanges, oldline, I1(op), I2(op), 1..2)
           /\ newchanges' = RegionsAfter(newchanges, newline, J1(op), J2(op), 1..2)]_vars

\* C19 witness: the loop has passed a non-equal opcode that follows an equal
\* run of 2 characters and another non-equal opcode, and its region on the
\* original side was merged into the region of the earlier one.
C19_Witness ==
    /\ regions_pc \in {"loop", "done"}
    /\ region_pos >= 4
    /\ LET op == char_opcodes[region_pos - 1]
           eq == char_opcodes[region_pos - 2]
       IN /\ Tag(op) # "equal"
          /\ Tag(eq) = "equal" /\ I2(eq) - I1(eq) = 2
          /\ oldchanges # <<>>
          /\ oldchanges[Len(oldchanges)][2] = I2(op)
          /\ oldchanges[Len(oldchanges)][1] < I1(eq)

\* C20: at every point of the walk of an insert opcode r_move_ranges holds
\* at most one range over all its keys, so the close-out never compares two
\* ranges.
C20_SingleRange ==
    /\ Len(FlattenRanges(r_move_ranges, DOMAIN r_move_ranges)) <= 1
    /\ raised # "TypeError"

\* C20 witness: the walk has just matched an inserted line that has two or
\* more removed occurrences, and r_move_ranges holds a range.
C20_Witness ==
    /\ pc = "walk"
    /\ DOMAIN r_move_ranges # {}
    /\ i_move_cur >= 1 /\ i_move_cur <= Len(b)
    /\ i_move_cur > CurInsert.j1
    /\ Strip(b[i_move_cur]) \in DOMAIN removes
    /\ Len(removes[Strip(b[i_move_cur])]) >= 2

\* The delete opcode that owns the 1-based original line old, or 0.
OwnerOfOld(old) ==
    IF \E d \in GroupsOf("delete") : old \in OldLines(d)
    THEN CHOOSE d \in GroupsOf("delete") : old \in OldLines(d)
    ELSE 0

\* C21 as stated: once opcodes_with_metadata has returned, for every entry
\* new -> old of the moved meta of an insert opcode the delete opcode that
\* owns line old has the entry old -> new, and no two new lines, of one
\* insert opcode or of two, are mapped to the same old line.
C21_AsStated ==
    MovesDone =>
        /\ \A g \in GroupsOf("insert") :
            \A new \in DOMAIN Moved(g) :
                LET d == OwnerOfOld(Moved(g)[new])
                IN /\ d # 0
                   /\ Moved(g)[new] \in DOMAIN Moved(d)
                   /\ Moved(d)[Moved(g)[new]] = new
        /\ \A g1, g2 \in GroupsOf("insert") :
            \A n1 \in DOMAIN Moved(g1), n2 \in DOMAIN Moved(g2) :
                (g1 # g2 \/ n1 # n2) => Moved(g1)[n1] # Moved(g2)[n2]

(***************************************************************************)
(* get_file_chunks_in_range called more than once on one context           *)
(* (diffutils.py:1276-1332): the chunks of the file are looked up in the   *)
(* context from the second call on.                                        *)
(***************************************************************************)
MaxPagerChunks == 2     \* most chunks of the cached file
MaxPagerChunkLen == 3   \* most lines of a cached chunk
MaxPagerNumLines == 2   \* largest num_lines asked for
MaxPagerCalls == 2      \* calls of the pager on one context

\* The header lists a chunk can have: none, or one header on one of its
\* lines, at the same line number on both sides.
HeaderListsOf(lines) == {<<>>} \cup {<<lines[k]>> : k \in 1..Len(lines)}

PagerInit ==
    /\ \E sizes \in UNION {[1..k -> 1..MaxPagerChunkLen] : k \in 1..MaxPagerChunks} :
           range_chunks = ChunksOfSizes(sizes, 1)
    /\ num_lines \in 1..MaxPagerNumLines
    /\ \E metas \in [1..Len(range_chunks) -> [has_lists : {TRUE},
                          left_headers : UNION {HeaderListsOf(range_chunks[k]) : k \in 1..Len(range_chunks)},
                          right_headers : UNION {HeaderListsOf(range_chunks[k]) : k \in 1..Len(range_chunks)},
                          headers : {<<>>}]] :
           /\ \A k \in 1..Len(range_chunks) :
                  /\ metas[k].left_headers \in HeaderListsOf(range_chunks[k])
                  /\ metas[k].right_headers = metas[k].left_headers
           /\ RangeEntry(metas)
    /\ NewlinesIdle /\ DifferIdle /\ MovesIdle /\ ChunksIdle
    /\ RegionsIdle
    /\ HighlightIdle
    /\ DiffFilesIdle
    /\ RegisterIdle

\* The next call with the same context: key is in the context, so files is
\* context[key] (lines 1276-1277) and the loop starts over on its chunks.
RangeCallAgain ==
    /\ range_pc = "done"
    /\ range_calls < MaxPagerCalls
    /\ range_calls' = range_calls + 1
    /\ first_line' \in 1..Len(Concat(range_chunks))
    /\ num_lines' \in 1..MaxPagerNumLines
    /\ requested' = <<first_line', num_lines'>>
    /\ chunk_pos' = 1
    /\ range_yielded' = <<>>
    /\ range_last_header' = <<NoHeader, NoHeader>>
    /\ range_pc' = "loop"
    /\ UNCHANGED <<range_chunks, range_meta, populated_meta, raised>>
    /\ UNCHANGED <<nlVars, differVars, moveVars, chunkVars, hlVars, sortVars, regVars, regionVars>>

PagerNext == RangeStep \/ RangeCallAgain

SpecPager == PagerInit /\ [][PagerNext]_vars

\* The chunk of the cached file that holds virtual line n.
ChunkOfLine(n) ==
    CHOOSE k \in 1..Len(range_chunks) :
        \E p \in 1..Len(range_chunks[k]) : range_chunks[k][p] = n

\* last_header at chunk k in a call on a context the pager has not touched.
RECURSIVE PopulatedLastHeader(_)
PopulatedLastHeader(k) ==
    IF k = 0 THEN <<NoHeader, NoHeader>>
    ELSE LET h == populated_meta[k].headers
         IN IF h # <<>> /\ (h[1] # NoHeader \/ h[2] # NoHeader)
            THEN h ELSE PopulatedLastHeader(k - 1)

\* The headers value of the chunk yielded from line first on, in a call on a
\* context the pager has not touched.
PopulatedHeaders(first) ==
    LET k == ChunkOfLine(first)
        l == find_header(populated_meta[k].left_headers, first)
        r == find_header(populated_meta[k].right_headers, first)
    IN IF l # NoHeader \/ r # NoHeader THEN <<l, r>>
       ELSE PopulatedLastHeader(k)

\* C22 as stated: a call of get_file_chunks_in_range leaves the meta of
\* every cached chunk as populate_diff_chunks stored it, with left_headers,
\* right_headers and the same headers value, and every chunk yielded for a
\* window has the headers value that a call on an untouched context yields
\* for that window.
C22_AsStated ==
    /\ range_meta = populated_meta
    /\ \A k \in 1..Len(range_yielded) :
           range_yielded[k].meta.headers
               = PopulatedHeaders(range_yielded[k].lines[1])
\* The lines of the two blocks when an unchanged line can also be a deleted
\* line: a line that passes the validity test, a short line and the line
\* of SeparatorPool that is in neither.
FollowedLinePool ==
    { <<"a", "a", "a", "a">>, <<"x", "=", "1">>, <<"b", "b", "b", "b">> }

FollowedBlocksInit == MoveBlocksInitWith(FollowedLinePool, MaxBlock)

SpecFollowedBlocks == FollowedBlocksInit /\ [][MovesNext]_vars

\* The insert group g matches, line for line, the run of deleted lines that
\* starts at the 1-based old line r inside the delete group d; the run has
\* at least two lines, its first line is valid, and no inserted line has the
\* stripped text of a deleted line outside its place in the run.
MatchesOneRun(g, d, r) ==
    /\ groups[g].j2 - groups[g].j1 >= 2
    /\ \A k \in 0..(groups[g].j2 - groups[g].j1 - 1) :
           /\ (r + k) \in OldLines(d)
           /\ \A d2 \in GroupsOf("delete") : \A old \in OldLines(d2) :
                  SameStripped(old, groups[g].j1 + 1 + k) <=> old = r + k
    /\ ValidLine(a[r])

\* The move of the insert group g from the run at old line r of the delete
\* group d is recorded on both sides.
MoveRecorded(g, d, r) ==
    \A k \in 0..(groups[g].j2 - groups[g].j1 - 1) :
        LET new == groups[g].j1 + 1 + k
            old == r + k
        IN /\ new \in DOMAIN Moved(g) /\ Moved(g)[new] = old
           /\ old \in DOMAIN Moved(d) /\ Moved(d)[old] = new

\* C23 as stated: an insert opcode whose lines all match, line for line
\* after stripping, a run of at least two lines of one delete opcode with a
\* valid first line gets the move recorded, whatever follows the insert
\* block in the new file.
C23_AsStated ==
    MovesDone =>
        \A g \in GroupsOf("insert"), d \in GroupsOf("delete") :
            \A r \in OldLines(d) :
                MatchesOneRun(g, d, r) => MoveRecorded(g, d, r)

\* The same with the case of the claim left out: the line that follows the
\* insert block is not a deleted line.
C23_UnlessFollowedByRemoved ==
    MovesDone =>
        \A g \in GroupsOf("insert"), d \in GroupsOf("delete") :
            \A r \in OldLines(d) :
                (/\ MatchesOneRun(g, d, r)
                 /\ (groups[g].j2 + 1 <= Len(b) => ~HasRemoved(groups[g].j2 + 1)))
                => MoveRecorded(g, d, r)
\* C24 as stated: in the list get_diff_files returns, the index field of
\* every record is the record's position in the list, counted from 0.
C24_AsStated ==
    files_returned =>
        \A k \in 1..Len(files) : files[k].index = k - 1
\* C25 as stated: for every context_num_lines >= 0 and every opcode
\* sequence get_chunks raises nothing, and every chunk it emits has
\* numlines >= 1.
C25_AsStated ==
    /\ raised = "none"
    /\ \A k \in 1..Len(chunks) : chunks[k].numlines >= 1

\* What holds of the code: the same from one line of context on.
C25_FromOneLineOfContext ==
    context_num_lines >= 1 =>
        /\ raised = "none"
        /\ \A k \in 1..Len(chunks) : chunks[k].numlines >= 1
\* C26: after opcodes_with_metadata returns, only insert and delete opcodes
\* have moved entries, every key of an insert opcode's moved meta is a
\* 1-based new line of that opcode (j1 < key <= j2) and every key of a
\* delete opcode's moved meta is a 1-based original line of that opcode
\* (i1 < key <= i2).
C26_KeysInOwnRange ==
    MovesDone =>
        \A g \in 1..Len(groups) :
            /\ groups[g].tag \notin {"insert", "delete"} => DOMAIN Moved(g) = {}
            /\ groups[g].tag = "insert" => DOMAIN Moved(g) \subseteq NewLines(g)
            /\ groups[g].tag = "delete" => DOMAIN Moved(g) \subseteq OldLines(g)

\* The case of C26: the insert block is followed by a line of the new file,
\* the walk read that line, closed the move out there and the last line of
\* the block, j2, is a key of the insert opcode; the delete opcode has the
\* inverse entry.
C26_Witness ==
    /\ MovesDone
    /\ \E g \in GroupsOf("insert"), d \in GroupsOf("delete") :
           /\ groups[g].j2 < Len(b)
           /\ groups[g].j2 \in DOMAIN Moved(g)
           /\ Moved(g)[groups[g].j2] \in DOMAIN Moved(d)
           /\ Moved(d)[Moved(g)[groups[g].j2]] = groups[g].j2
=============================================================================
